---- MODULE Spec2Model ----
(***************************************************************************)
(* DeferLink: deferred deep-link resolution.                               *)
(*                                                                         *)
(* The model covers the candidate store (table deeplink_sessions), the     *)
(* DeepLinkHandler operations on it (create_session,                       *)
(* find_matching_session, mark_session_resolved,                           *)
(* cleanup_expired_sessions, optimize_algorithm_weights), the /resolve     *)
(* handler that chains them, and the IntelligentMatcher scoring code.      *)
(*                                                                         *)
(* Numbers.  Python floats are modelled by exact rationals.                *)
(*   - a comparator score is an integer number of 1/SCALE units;           *)
(*   - a weight vector is a record [num, den]: weight k is num[k]/den;     *)
(*   - a stored confidence is a reduced fraction <<n, d>>;                 *)
(*   - time is whole seconds; the store clock (CURRENT_TIMESTAMP) is UTC   *)
(*     and the process clock (datetime.now()) is UTC + tzOffset hours.     *)
(***************************************************************************)
EXTENDS Integers, Sequences, FiniteSets, Bags, TLC

(***************************************************************************)
(* Bounds of the model.                                                    *)
(***************************************************************************)
MaxSessions == 2
MaxTicks == 2
MaxResolves == 2
MaxUpdates == 1
MaxHistory == 11
MaxCandidates == 2

(***************************************************************************)
(* Program constants.                                                      *)
(***************************************************************************)
DEFAULT_TTL_HOURS == 48
CANDIDATE_LIMIT == 50
MIN_SAMPLES == 10
HISTORY_LIMIT == 1000
SCALE == 4200
HOUR == 3600

(***************************************************************************)
(* Python values.  NoneVal is None / SQL NULL; Str is str(); Falsy is the  *)
(* truth test `not v` on an optional string.                               *)
(***************************************************************************)
NoneVal == "<None>"

\* an absent timestamp (NULL) and an absent session id (None)
NoTime == -1

NoneId == 0

Str(v) == IF v = NoneVal THEN "None" ELSE v

Falsy(v) == v = NoneVal \/ v = ""

(***************************************************************************)
(* Exact rationals <<n, d>> with d > 0.                                    *)
(***************************************************************************)
Abs(x) == IF x < 0 THEN -x ELSE x

Max(a, b) == IF a >= b THEN a ELSE b

Min(a, b) == IF a <= b THEN a ELSE b

RECURSIVE GCD(_, _)
GCD(a, b) == IF b = 0 THEN a ELSE GCD(b, a % b)

Rat(n, d) == LET g == GCD(Abs(n), d) IN IF g = 0 THEN <<0, 1>> ELSE <<n \div g, d \div g>>

RatAdd(x, y) == LET g == GCD(x[2], y[2])
                IN  Rat(x[1] * (y[2] \div g) + y[1] * (x[2] \div g), (x[2] \div g) * y[2])

RatMul(x, y) == LET a == Rat(x[1], y[2])
                    b == Rat(y[1], x[2])
                IN  Rat(a[1] * b[1], a[2] * b[2])

RatDiv(x, y) == RatMul(x, <<y[2], y[1]>>)

RatLess(x, y) == x[1] * y[2] < y[1] * x[2]

RatZero == <<0, 1>>

\* the sum of the non-negative integers f[k], k in S: the size of the bag
\* that holds f[k] copies of k
SumOver(f, S) == BagCardinality([k \in {x \in S : f[x] > 0} |-> f[k]])

RECURSIVE GCDOver(_, _)
GCDOver(f, S) == IF S = {} THEN 0
                 ELSE LET k == CHOOSE k \in S : TRUE IN GCD(f[k], GCDOver(f, S \ {k}))

(***************************************************************************)
(* Strings.  TLC has no character operations, so str.lower(), str.strip(), *)
(* str.replace(), str.split() and the regular expressions are tabulated    *)
(* for the attribute values the model draws its inputs from; a value       *)
(* outside a table is already in the table's normal form.                  *)
(***************************************************************************)
UA_SAFARI == "Mozilla/5.0 (iPhone; CPU iPhone OS 16_0 like Mac OS X) AppleWebKit/605.1.15 Mobile/15E148 Safari/604.1"

UA_APP == "MyApp/1.0 (iPhone; iOS 16.0)"

StrLower(s) ==
    CASE s = "None" -> "none"
      [] s = "ru_RU" -> "ru_ru"
      [] s = "ru-RU" -> "ru-ru"
      [] s = "en_US" -> "en_us"
      [] s = "en_GB" -> "en_gb"
      [] s = "iPhone14,2" -> "iphone14,2"
      [] s = "iPhone14,3" -> "iphone14,3"
      [] s = "iPhone 13 Pro" -> "iphone 13 pro"
      [] s = "A2638" -> "a2638"
      [] s = UA_SAFARI -> "mozilla/5.0 (iphone; cpu iphone os 16_0 like mac os x) applewebkit/605.1.15 mobile/15e148 safari/604.1"
      [] s = UA_APP -> "myapp/1.0 (iphone; ios 16.0)"
      [] OTHER -> s

(***************************************************************************)
(* _timezone_similarity                                                    *)
(***************************************************************************)
equivalent_zones ==
    [p \in {"Europe/Moscow", "America/New_York", "Europe/London", "Asia/Shanghai", "America/Los_Angeles"} |->
        CASE p = "Europe/Moscow" -> {"Europe/Volgograd", "Europe/Kirov", "Europe/Simferopol"}
          [] p = "America/New_York" -> {"America/Detroit", "America/Kentucky/Louisville", "America/Montreal"}
          [] p = "Europe/London" -> {"Europe/Belfast", "Europe/Guernsey", "Europe/Jersey"}
          [] p = "Asia/Shanghai" -> {"Asia/Chongqing", "Asia/Harbin", "Asia/Kashgar"}
          [] p = "America/Los_Angeles" -> {"America/Vancouver", "America/Tijuana"}]

utc_offset_map ==
    [z \in {"UTC", "Europe/London", "Europe/Moscow", "America/New_York", "America/Los_Angeles", "Asia/Tokyo", "Asia/Shanghai"} |->
        CASE z = "UTC" -> 0
          [] z = "Europe/London" -> 0
          [] z = "Europe/Moscow" -> 3
          [] z = "America/New_York" -> -5
          [] z = "America/Los_Angeles" -> -8
          [] z = "Asia/Tokyo" -> 9
          [] z = "Asia/Shanghai" -> 8]

timezone_similarity(browser_session, app_fingerprint) ==
    LET browser_tz == browser_session.timezone
        app_tz == app_fingerprint.timezone
    IN  IF Falsy(browser_tz) \/ Falsy(app_tz) THEN (SCALE * 50) \div 100
        ELSE IF browser_tz = app_tz THEN SCALE
        ELSE IF \E primary \in DOMAIN equivalent_zones :
                   \/ (browser_tz = primary /\ app_tz \in equivalent_zones[primary])
                   \/ (app_tz = primary /\ browser_tz \in equivalent_zones[primary])
             THEN (SCALE * 95) \div 100
        ELSE IF /\ browser_tz \in DOMAIN utc_offset_map
                /\ app_tz \in DOMAIN utc_offset_map
                /\ utc_offset_map[browser_tz] = utc_offset_map[app_tz]
             THEN (SCALE * 80) \div 100
        ELSE 0

(***************************************************************************)
(* _screen_similarity                                                      *)
(***************************************************************************)
NoParse == <<0, 0>>

parse_screen(screen_str) ==
    CASE screen_str = "390x844" -> <<390, 844>>
      [] screen_str = "844x390" -> <<844, 390>>
      [] screen_str = "390*800" -> <<390, 800>>
      [] screen_str = "375,812" -> <<375, 812>>
      [] screen_str = "320x480" -> <<320, 480>>
      [] OTHER -> NoParse

within_tolerance(w1, h1, w2, h2, tolerance) ==
    \/ (Abs(w1 - w2) <= tolerance /\ Abs(h1 - h2) <= tolerance)
    \/ (Abs(w1 - h2) <= tolerance /\ Abs(h1 - w2) <= tolerance)

\* |max(w1,h1)/min(w1,h1) - max(w2,h2)/min(w2,h2)| < pct/100
RatioDiffBelow(w1, h1, w2, h2, pct) ==
    LET a == Max(w1, h1)
        b == Min(w1, h1)
        c == Max(w2, h2)
        d == Min(w2, h2)
    IN  Abs(a * d - c * b) * 100 < pct * b * d

screen_similarity(browser_session, app_fingerprint) ==
    LET browser_screen == browser_session.screen_size
        app_screen == app_fingerprint.screen_size
        b == parse_screen(browser_screen)
        a == parse_screen(app_screen)
    IN  IF Falsy(browser_screen) \/ Falsy(app_screen) THEN (SCALE * 30) \div 100
        ELSE IF b[1] = 0 \/ b[2] = 0 \/ a[1] = 0 \/ a[2] = 0 THEN (SCALE * 30) \div 100
        ELSE IF (b[1] = a[1] /\ b[2] = a[2]) \/ (b[1] = a[2] /\ b[2] = a[1]) THEN SCALE
        ELSE IF within_tolerance(b[1], b[2], a[1], a[2], 60) THEN (SCALE * 95) \div 100
        ELSE IF within_tolerance(b[1], b[2], a[1], a[2], 100) THEN (SCALE * 85) \div 100
        ELSE IF RatioDiffBelow(b[1], b[2], a[1], a[2], 5) THEN (SCALE * 70) \div 100
        ELSE IF RatioDiffBelow(b[1], b[2], a[1], a[2], 15) THEN (SCALE * 50) \div 100
        ELSE 0

(***************************************************************************)
(* _language_similarity                                                    *)
(***************************************************************************)
DashToUnderscore(lang) == CASE lang = "ru-ru" -> "ru_ru" [] OTHER -> lang

language_mappings ==
    [l \in {"en", "ru", "de", "fr", "es", "it", "ja", "ko", "zh"} |->
        CASE l = "en" -> "en_us" [] l = "ru" -> "ru_ru" [] l = "de" -> "de_de"
          [] l = "fr" -> "fr_fr" [] l = "es" -> "es_es" [] l = "it" -> "it_it"
          [] l = "ja" -> "ja_jp" [] l = "ko" -> "ko_kr" [] l = "zh" -> "zh_cn"]

normalize_language(lang) ==
    LET l == StrLower(DashToUnderscore(lang))
    IN  IF l \in DOMAIN language_mappings THEN language_mappings[l] ELSE l

\* lang.split('_')[0]
LangMain(lang) ==
    CASE lang = "ru_ru" -> "ru"
      [] lang = "en_us" -> "en"
      [] lang = "en_gb" -> "en"
      [] OTHER -> lang

related_languages ==
    {{"en_us", "en_gb", "en_au", "en_ca"}, {"es_es", "es_mx", "es_ar", "es_co"},
     {"fr_fr", "fr_ca", "fr_be", "fr_ch"}, {"de_de", "de_at", "de_ch"},
     {"pt_pt", "pt_br"}, {"zh_cn", "zh_tw", "zh_hk"}}

language_similarity(browser_session, app_fingerprint) ==
    LET browser_lang == StrLower(Str(browser_session.language))
        app_lang == StrLower(Str(app_fingerprint.language))
        norm_browser == normalize_language(browser_lang)
        norm_app == normalize_language(app_lang)
    IN  IF browser_lang = "" \/ app_lang = "" THEN (SCALE * 40) \div 100
        ELSE IF browser_lang = app_lang THEN SCALE
        ELSE IF norm_browser = norm_app THEN (SCALE * 95) \div 100
        ELSE IF LangMain(norm_browser) = LangMain(norm_app) THEN (SCALE * 80) \div 100
        ELSE IF \E variants \in related_languages : norm_browser \in variants /\ norm_app \in variants
             THEN (SCALE * 70) \div 100
        ELSE 0

(***************************************************************************)
(* _device_similarity, _advanced_string_similarity, _char_similarity       *)
(***************************************************************************)
device_mappings ==
    [c \in {"iphone14,2", "iphone14,3", "iphone13,2", "iphone13,3", "sm-g998b", "sm-g991b",
            "sm-g996b", "pixel 6", "pixel 7", "oneplus 9", "oneplus 10"} |->
        CASE c = "iphone14,2" -> {"iphone 13 pro", "iphone13,2", "a2638", "a2639"}
          [] c = "iphone14,3" -> {"iphone 13 pro max", "iphone13,3", "a2644", "a2645"}
          [] c = "iphone13,2" -> {"iphone 12", "iphone12,1", "a2172", "a2402"}
          [] c = "iphone13,3" -> {"iphone 12 pro max", "iphone12,5", "a2342", "a2410"}
          [] c = "sm-g998b" -> {"galaxy s21 ultra", "samsung galaxy s21 ultra", "sm-g998u"}
          [] c = "sm-g991b" -> {"galaxy s21", "samsung galaxy s21", "sm-g991u"}
          [] c = "sm-g996b" -> {"galaxy s21+", "samsung galaxy s21+", "sm-g996u"}
          [] c = "pixel 6" -> {"pixel 6a", "google pixel 6", "gf5kq", "gb7n6"}
          [] c = "pixel 7" -> {"pixel 7a", "google pixel 7", "gvt4a", "gp4bc"}
          [] c = "oneplus 9" -> {"1+9", "op9", "le2113", "le2115"}
          [] c = "oneplus 10" -> {"1+10", "op10", "ne2210", "ne2215"}]

\* preprocess(s).split(): the words left after dropping punctuation and brand stop-words
PreprocessWords(s) ==
    CASE s = "iphone14,2" -> {"iphone142"}
      [] s = "iphone14,3" -> {"iphone143"}
      [] s = "iphone 13 pro" -> {"iphone", "13", "pro"}
      [] s = "a2638" -> {"a2638"}
      [] s = "none" -> {"none"}
      [] OTHER -> {s}

\* set(preprocess(s)): the characters of the preprocessed string
PreprocessChars(s) ==
    CASE s = "iphone14,2" -> {"i", "p", "h", "o", "n", "e", "1", "4", "2"}
      [] s = "iphone14,3" -> {"i", "p", "h", "o", "n", "e", "1", "4", "3"}
      [] s = "iphone 13 pro" -> {"i", "p", "h", "o", "n", "e", " ", "1", "3", "r"}
      [] s = "a2638" -> {"a", "2", "6", "3", "8"}
      [] s = "none" -> {"n", "o", "e"}
      [] OTHER -> {}

\* jaccard * 0.7 + char_similarity * 0.3 > pct / 100
StringSimilarityAbove(s1, s2, pct) ==
    LET words1 == PreprocessWords(s1)
        words2 == PreprocessWords(s2)
        chars1 == PreprocessChars(s1)
        chars2 == PreprocessChars(s2)
        wi == Cardinality(words1 \cap words2)
        wu == Cardinality(words1 \cup words2)
        ci == IF chars1 = {} \/ chars2 = {} THEN 0 ELSE Cardinality(chars1 \cap chars2)
        cu == IF chars1 = {} \/ chars2 = {} THEN 1 ELSE Cardinality(chars1 \cup chars2)
    IN  IF wu = 0 THEN (IF s1 = s2 THEN 100 ELSE 0) > pct
        ELSE (7 * wi * cu + 3 * ci * wu) * 10 > pct * wu * cu

device_similarity(browser_session, app_fingerprint) ==
    LET browser_model == StrLower(Str(browser_session.model))
        app_model == StrLower(Str(app_fingerprint.model))
    IN  IF browser_model = "" \/ app_model = "" THEN (SCALE * 40) \div 100
        ELSE IF browser_model = app_model THEN SCALE
        ELSE IF \E c \in DOMAIN device_mappings :
                   \/ (browser_model = c /\ app_model \in device_mappings[c])
                   \/ (app_model = c /\ browser_model \in device_mappings[c])
             THEN (SCALE * 95) \div 100
        ELSE IF \E c \in DOMAIN device_mappings :
                   browser_model \in device_mappings[c] /\ app_model \in device_mappings[c]
             THEN (SCALE * 90) \div 100
        ELSE IF StringSimilarityAbove(browser_model, app_model, 85) THEN (SCALE * 80) \div 100
        ELSE IF StringSimilarityAbove(browser_model, app_model, 70) THEN (SCALE * 60) \div 100
        ELSE IF StringSimilarityAbove(browser_model, app_model, 50) THEN (SCALE * 40) \div 100
        ELSE 0

(***************************************************************************)
(* _user_agent_similarity                                                  *)
(***************************************************************************)
UAFlagNames == {"webkit", "mobile", "iphone", "android", "safari", "chrome"}

\* extract_ua_components(ua)[0]: the flags whose substring occurs in ua
ua_bool_flags(ua) ==
    CASE ua = StrLower(UA_SAFARI) -> {"webkit", "mobile", "iphone", "safari"}
      [] ua = StrLower(UA_APP) -> {"iphone"}
      [] OTHER -> {}

\* extract_ua_components(ua)[1]: the version keys found and their values
ua_versions(ua) ==
    CASE ua = StrLower(UA_SAFARI) -> [k \in {"ios_version"} |-> "16.0"]
      [] ua = StrLower(UA_APP) -> [k \in {"ios_version"} |-> "16.0"]
      [] OTHER -> [k \in {} |-> ""]

\* a variant that divides the matches by the number of flag comparisons alone
user_agent_similarity_flag_total(browser_session, app_fingerprint) ==
    LET browser_ua == StrLower(Str(browser_session.user_agent))
        app_ua == StrLower(Str(app_fingerprint.user_agent))
        browser_bool == ua_bool_flags(browser_ua)
        app_bool == ua_bool_flags(app_ua)
        browser_versions == ua_versions(browser_ua)
        app_versions == ua_versions(app_ua)
        bool_total == Cardinality(UAFlagNames)
        bool_matches == Cardinality({k \in UAFlagNames : (k \in browser_bool) = (k \in app_bool)})
        common == DOMAIN browser_versions \cap DOMAIN app_versions
        version_matches == Cardinality({k \in common : browser_versions[k] = app_versions[k]})
    IN  IF browser_ua = "" \/ app_ua = "" THEN (SCALE * 30) \div 100
        ELSE (SCALE * (bool_matches + version_matches)) \div bool_total

user_agent_similarity(browser_session, app_fingerprint) ==
    LET browser_ua == StrLower(Str(browser_session.user_agent))
        app_ua == StrLower(Str(app_fingerprint.user_agent))
        browser_bool == ua_bool_flags(browser_ua)
        app_bool == ua_bool_flags(app_ua)
        browser_versions == ua_versions(browser_ua)
        app_versions == ua_versions(app_ua)
        bool_total == Cardinality(UAFlagNames)
        bool_matches == Cardinality({k \in UAFlagNames : (k \in browser_bool) = (k \in app_bool)})
        common == DOMAIN browser_versions \cap DOMAIN app_versions
        version_total == Cardinality(common)
        version_matches == Cardinality({k \in common : browser_versions[k] = app_versions[k]})
    IN  IF browser_ua = "" \/ app_ua = "" THEN (SCALE * 30) \div 100
        ELSE (SCALE * (bool_matches + version_matches)) \div (bool_total + version_total)

(***************************************************************************)
(* _validate_temporal_patterns: the multiplier in tenths.  created_at is   *)
(* the UTC second written by CURRENT_TIMESTAMP, parsed as a naive          *)
(* datetime; current_time is datetime.now(), the process's local clock.    *)
(***************************************************************************)
validate_temporal_patterns(browser_session, current_time) ==
    LET created_at == browser_session.created_at
        time_diff == current_time - created_at
    IN  IF created_at = NoTime THEN 8
        ELSE IF time_diff < 10 THEN 2
        ELSE IF time_diff < 30 THEN 6
        ELSE IF 30 <= time_diff /\ time_diff <= 600 THEN 10
        ELSE IF 600 < time_diff /\ time_diff <= 3600 THEN 9
        ELSE IF 3600 < time_diff /\ time_diff <= 14400 THEN 7
        ELSE IF 14400 < time_diff /\ time_diff <= 86400 THEN 4
        ELSE 1

(***************************************************************************)
(* _assess_fingerprint_quality (in hundredths) and _get_dynamic_threshold  *)
(* (in hundredths).                                                        *)
(***************************************************************************)
assess_fingerprint_quality(fingerprint) ==
    LET quality_score ==
            (IF Falsy(fingerprint.timezone) THEN 0 ELSE 30)
          + (IF Falsy(fingerprint.screen_size) THEN 0 ELSE 25)
          + (IF Falsy(fingerprint.language) THEN 0 ELSE 20)
          + (IF Falsy(fingerprint.model) THEN 0 ELSE 15)
          + (IF Falsy(fingerprint.user_agent) THEN 0 ELSE 10)
        max_score == 30 + 25 + 20 + 15 + 10
    IN  (quality_score * 100) \div max_score

confidence_thresholds == [high |-> 85, medium |-> 70, low |-> 50]

\* a variant with the time-of-day adjustment the wrong way round
get_dynamic_threshold_inverted(app_fingerprint, current_hour) ==
    LET base == confidence_thresholds.medium
        timed == IF 9 <= current_hour /\ current_hour <= 21 THEN base - 5 ELSE base + 5
        fingerprint_quality == assess_fingerprint_quality(app_fingerprint)
        adjusted == IF fingerprint_quality > 80 THEN timed - 5
                    ELSE IF fingerprint_quality < 40 THEN timed + 10
                    ELSE timed
    IN  Max(50, Min(90, adjusted))

get_dynamic_threshold(app_fingerprint, current_hour) ==
    LET base == confidence_thresholds.medium
        timed == IF 9 <= current_hour /\ current_hour <= 21 THEN base + 5 ELSE base - 5
        fingerprint_quality == assess_fingerprint_quality(app_fingerprint)
        adjusted == IF fingerprint_quality > 80 THEN timed - 5
                    ELSE IF fingerprint_quality < 40 THEN timed + 10
                    ELSE timed
    IN  Max(50, Min(90, adjusted))

(***************************************************************************)
(* Weights and _calculate_match_score.                                     *)
(***************************************************************************)
ScoreKeys == {"timezone", "screen", "language", "device", "user_agent"}

WeightKeys == {"timezone", "screen_dimensions", "language", "device_model", "user_agent_similarity"}

map_score_key_to_weight(score_key) ==
    CASE score_key = "timezone" -> "timezone"
      [] score_key = "screen" -> "screen_dimensions"
      [] score_key = "language" -> "language"
      [] score_key = "device" -> "device_model"
      [] score_key = "user_agent" -> "user_agent_similarity"
      [] OTHER -> score_key

\* IntelligentMatcher.__init__: 0.35, 0.25, 0.20, 0.15, 0.05
DefaultWeights ==
    [num |-> [k \in WeightKeys |->
                CASE k = "timezone" -> 7
                  [] k = "screen_dimensions" -> 5
                  [] k = "language" -> 4
                  [] k = "device_model" -> 3
                  [] k = "user_agent_similarity" -> 1],
     den |-> 20]

WeightSum(w) == SumOver(w.num, WeightKeys)

component_scores(browser_session, app_fingerprint) ==
    [k \in ScoreKeys |->
        CASE k = "timezone" -> timezone_similarity(browser_session, app_fingerprint)
          [] k = "screen" -> screen_similarity(browser_session, app_fingerprint)
          [] k = "language" -> language_similarity(browser_session, app_fingerprint)
          [] k = "device" -> device_similarity(browser_session, app_fingerprint)
          [] k = "user_agent" -> user_agent_similarity(browser_session, app_fingerprint)]

\* the weighting loop of _calculate_match_score over the component scores;
\* total_score and total_weight in units of 1/(SCALE * den) and 1/den
WeightedScore(scores, w) ==
    LET weighted == [k \in ScoreKeys |-> scores[k] * w.num[map_score_key_to_weight(k)]]
        total_score == SumOver(weighted, ScoreKeys)
        total_weight == WeightSum(w)
    IN  [scores |-> scores,
         total_score |-> IF total_weight > 0 THEN total_score ELSE 0,
         total_weight |-> total_weight,
         weighted_score |-> IF total_weight > 0 THEN Rat(total_score, SCALE * total_weight) ELSE RatZero]

calculate_match_score(browser_session, app_fingerprint, w) ==
    WeightedScore(component_scores(browser_session, app_fingerprint), w)

(***************************************************************************)
(* find_best_match.  All candidates of one call are scored with the same   *)
(* weight vector, so their final scores share the denominator              *)
(* SCALE * total_weight * 10 and are compared by numerator.                *)
(***************************************************************************)
FinalNumerator(session, fp, w, current_time) ==
    calculate_match_score(session, fp, w).total_score * validate_temporal_patterns(session, current_time)

\* a variant of the loop that compares final_score with 0.0 instead of
\* best_score, so that a later, weaker candidate replaces the best one
RECURSIVE ScanKeepingLastPositive(_, _, _, _, _, _, _)
ScanKeepingLastPositive(cands, i, best, best_score, fp, w, current_time) ==
    IF i > Len(cands) THEN <<best, best_score>>
    ELSE LET final_score == FinalNumerator(cands[i], fp, w, current_time)
         IN  IF final_score > 0
             THEN ScanKeepingLastPositive(cands, i + 1, i, final_score, fp, w, current_time)
             ELSE ScanKeepingLastPositive(cands, i + 1, best, best_score, fp, w, current_time)

\* a variant of the loop that compares with >= instead of >, so that a later
\* candidate with an equal final score replaces the earlier one
RECURSIVE ScanKeepingLastOfEqual(_, _, _, _, _, _, _)
ScanKeepingLastOfEqual(cands, i, best, best_score, fp, w, current_time) ==
    IF i > Len(cands) THEN <<best, best_score>>
    ELSE LET final_score == FinalNumerator(cands[i], fp, w, current_time)
         IN  IF final_score >= best_score /\ final_score > 0
             THEN ScanKeepingLastOfEqual(cands, i + 1, i, final_score, fp, w, current_time)
             ELSE ScanKeepingLastOfEqual(cands, i + 1, best, best_score, fp, w, current_time)

\* the loop of find_best_match: index of best_match (0 for None) after candidates i..Len
RECURSIVE ScanCandidates(_, _, _, _, _, _, _)
ScanCandidates(cands, i, best, best_score, fp, w, current_time) ==
    IF i > Len(cands) THEN <<best, best_score>>
    ELSE LET final_score == FinalNumerator(cands[i], fp, w, current_time)
         IN  IF final_score > best_score
             THEN ScanCandidates(cands, i + 1, i, final_score, fp, w, current_time)
             ELSE ScanCandidates(cands, i + 1, best, best_score, fp, w, current_time)

NoCandidatesDetails == [reason |-> "no_candidates"]

EmptyDetails == [reason |-> "<empty>"]

\* best_details: the breakdown recorded for the best candidate, whose match
\* score is m and temporal multiplier t
BestDetails(m, t, w) ==
    [component_scores |-> m.scores,
     weights_used |-> w,
     weighted_score |-> m.weighted_score,
     temporal_score |-> t,
     final_score |-> Rat(m.total_score * t, SCALE * m.total_weight * 10)]

MatchDetails(session, fp, w, current_time) ==
    BestDetails(calculate_match_score(session, fp, w),
                validate_temporal_patterns(session, current_time), w)

\* the MatchResult built after the loop left best (0 for None) and best_score
MatchResult(best, best_score, threshold, target_fingerprint, candidate_sessions, w, current_time) ==
    [is_match |-> best_score >= threshold * (SCALE \div 100) * WeightSum(w) * 10,
     confidence_score |-> Rat(best_score, SCALE * WeightSum(w) * 10),
     details |-> IF best = 0 THEN EmptyDetails
                 ELSE MatchDetails(candidate_sessions[best], target_fingerprint, w, current_time),
     session_id |-> IF best = 0 THEN NoneId ELSE candidate_sessions[best].session_id]

\* the result of the loop handed to MatchResult
ScanResult(scan, target_fingerprint, candidate_sessions, w, current_time) ==
    MatchResult(scan[1], scan[2],
                get_dynamic_threshold(target_fingerprint, (current_time \div HOUR) % 24),
                target_fingerprint, candidate_sessions, w, current_time)

\* a variant of find_best_match without the early return for an empty list
find_best_match_unguarded(target_fingerprint, candidate_sessions, w, current_time) ==
    ScanResult(ScanCandidates(candidate_sessions, 1, 0, 0, target_fingerprint, w, current_time),
               target_fingerprint, candidate_sessions, w, current_time)

find_best_match(target_fingerprint, candidate_sessions, w, current_time) ==
    IF Len(candidate_sessions) = 0
    THEN [is_match |-> FALSE, confidence_score |-> RatZero,
          details |-> NoCandidatesDetails, session_id |-> NoneId]
    ELSE ScanResult(ScanCandidates(candidate_sessions, 1, 0, 0, target_fingerprint, w, current_time),
                    target_fingerprint, candidate_sessions, w, current_time)

(***************************************************************************)
(* update_weights.  new_weights is a vector [num, den] over all weight     *)
(* keys.  The float test abs(total_weight - 1.0) > 0.01 is exact except    *)
(* when the sum is exactly 0.01 away from 1: there float rounding decides, *)
(* and both outcomes occur (10 records with component scores               *)
(* {timezone 0.0, screen 0.5, language 0.7, device 0.0} and confidence 0.9 *)
(* give 1.0099999999999998, which is not normalised; with all four scores  *)
(* equal the sum exceeds 1.01 and is normalised).  roundUp chooses.        *)
(***************************************************************************)
ReduceWeights(w) ==
    LET g == GCD(GCDOver(w.num, WeightKeys), w.den)
    IN  IF g = 0 THEN w ELSE [num |-> [k \in WeightKeys |-> w.num[k] \div g], den |-> w.den \div g]

update_weights(new_weights, roundUp) ==
    LET total_weight == WeightSum(new_weights)
        off == Abs(total_weight - new_weights.den) * 100
        normalise == off > new_weights.den \/ (off = new_weights.den /\ roundUp)
    IN  IF normalise
        THEN ReduceWeights([num |-> new_weights.num, den |-> total_weight])
        ELSE ReduceWeights(new_weights)

(***************************************************************************)
(* The stored form of match_details.  json.dumps is applied to a non-empty *)
(* dict and gives a JSON object; the column may also hold text written by  *)
(* another writer of the table: text that is not JSON, or JSON that is not *)
(* an object.                                                              *)
(***************************************************************************)
SqlNull == [null |-> TRUE]

NullConfidence == <<0, 0>>

json_dumps(details) == [json |-> details]

MalformedText == [text |-> "not json"]

JsonList == [json |-> [list |-> TRUE]]

\* a component score that is not a number (a JSON string)
NotANumber == -1

IsJsonText(t) == "json" \in DOMAIN t

IsJsonObject(t) == IsJsonText(t) /\ "list" \notin DOMAIN t.json

\* details.get('component_scores', {})
ComponentScoresOf(t) ==
    IF "component_scores" \in DOMAIN t.json THEN t.json.component_scores ELSE [k \in {} |-> 0]

(***************************************************************************)
(* optimize_algorithm_weights, as a function of the table contents and the *)
(* matcher's weights.  Its result names the matcher's weights after the    *)
(* call, the value returned and how the cycle ended.                       *)
(***************************************************************************)
LCM(a, b) == (a \div GCD(a, b)) * b

RECURSIVE LCMOfDens(_, _)
LCMOfDens(r, S) == IF S = {} THEN 1
                   ELSE LET k == CHOOSE k \in S : TRUE IN LCM(r[k][2], LCMOfDens(r, S \ {k}))

\* a vector of rationals over the weight keys as a weight vector [num, den]
RatsToWeights(r) ==
    LET d == LCMOfDens(r, WeightKeys)
    IN  ReduceWeights([num |-> [k \in WeightKeys |-> r[k][1] * (d \div r[k][2])], den |-> d])

\* the SELECT of optimize_algorithm_weights (fewer than HISTORY_LIMIT rows exist)
QualifyingResults(rows) ==
    {id \in DOMAIN rows :
        /\ rows[id].is_resolved
        /\ rows[id].match_details # SqlNull
        /\ rows[id].match_confidence # NullConfidence
        /\ RatLess(<<7, 10>>, rows[id].match_confidence)}

\* records on which the loop body raises an exception that the loop does not catch:
\* details.get on a non-object (AttributeError), a non-numeric score (TypeError)
RaisesUncaught(t) ==
    /\ IsJsonText(t)
    /\ \/ ~IsJsonObject(t)
       \/ \E c \in DOMAIN ComponentScoresOf(t) : ComponentScoresOf(t)[c] = NotANumber

\* records whose component scores are accumulated (total_samples counts them)
UsedResults(rows) == {id \in QualifyingResults(rows) : IsJsonObject(rows[id].match_details)}

\* the records among ids whose component_scores name the component
RecordsWith(rows, ids, component) ==
    {id \in ids : component \in DOMAIN ComponentScoresOf(rows[id].match_details)}

RECURSIVE LCMOfSet(_)
LCMOfSet(S) == IF S = {} THEN 1
               ELSE LET d == CHOOSE x \in S : TRUE IN LCM(d, LCMOfSet(S \ {d}))

\* component_performance[component]['total_score']: the sum of score * confidence
\* over the records that name the component, over the common denominator
\* SCALE * (least common multiple of the confidences' denominators)
TotalScoreOver(rows, having, component, common) ==
    Rat(SumOver([id \in having |->
                    ComponentScoresOf(rows[id].match_details)[component]
                    * rows[id].match_confidence[1] * (common \div rows[id].match_confidence[2])],
                having),
        SCALE * common)

TotalScore(rows, ids, component) ==
    TotalScoreOver(rows, RecordsWith(rows, ids, component), component,
                   LCMOfSet({rows[id].match_confidence[2] : id \in RecordsWith(rows, ids, component)}))

\* component_performance[component]['count']
ComponentCount(rows, ids, component) == Cardinality(RecordsWith(rows, ids, component))

RECURSIVE RatSumOver(_, _)
RatSumOver(r, S) == IF S = {} THEN RatZero
                    ELSE LET k == CHOOSE k \in S : TRUE IN RatAdd(r[k], RatSumOver(r, S \ {k}))

\* the component whose proposal goes to weight key k
ScoreKeyOf(k) == CHOOSE sc \in ScoreKeys : map_score_key_to_weight(sc) = k

\* avg_performance of every component the used records name (zero for the others)
AvgPerformance(rows, used) ==
    [c \in ScoreKeys |->
        IF ComponentCount(rows, used, c) > 0
        THEN RatDiv(TotalScore(rows, used, c), <<ComponentCount(rows, used, c), 1>>)
        ELSE RatZero]

\* the weight keys that receive a proposal
ProposedKeys(rows, used) ==
    {map_score_key_to_weight(c) : c \in {sc \in ScoreKeys : ComponentCount(rows, used, sc) > 0}}

\* optimized_weights: 0.8 * old + 0.2 * avg / total_performance for a proposed
\* key, the old weight for the others
SmoothedWeights(w, present, avg_performance, total_performance) ==
    RatsToWeights([k \in WeightKeys |->
                      IF k \in present
                      THEN RatAdd(RatMul(<<4, 5>>, <<w.num[k], w.den>>),
                                  RatMul(<<1, 5>>, RatDiv(avg_performance[ScoreKeyOf(k)], total_performance)))
                      ELSE Rat(w.num[k], w.den)])

\* the cycle after the loop over the records
ApplyPerformance(w, roundUp, present, avg_performance, total_performance) ==
    IF RatLess(RatZero, total_performance)
    THEN [weights |-> update_weights(SmoothedWeights(w, present, avg_performance, total_performance), roundUp),
          returned |-> SmoothedWeights(w, present, avg_performance, total_performance),
          outcome |-> "updated"]
    ELSE [weights |-> w, returned |-> w, outcome |-> "no_performance"]

optimize_algorithm_weights(rows, w, roundUp) ==
    IF Cardinality(QualifyingResults(rows)) < MIN_SAMPLES
    THEN [weights |-> w, returned |-> w, outcome |-> "insufficient"]
    ELSE IF \E id \in QualifyingResults(rows) : RaisesUncaught(rows[id].match_details)
    THEN [weights |-> w, returned |-> w, outcome |-> "aborted"]
    ELSE ApplyPerformance(w, roundUp, ProposedKeys(rows, UsedResults(rows)),
                          AvgPerformance(rows, UsedResults(rows)),
                          RatSumOver(AvgPerformance(rows, UsedResults(rows)), ScoreKeys))

(***************************************************************************)
(* Inputs of the model.                                                    *)
(***************************************************************************)
\* server worker processes (run.py: workers=API_WORKERS); they share the table
Procs == {"p1", "p2"}

\* local clock minus UTC, in hours, of the host the processes run on
TzOffsets == {-5, 0, 2}

\* UTC second at which the model starts: 11:00 of day 1
StartTimes == {35 * HOUR}

\* seconds by which the clock advances in one step
TickSteps == {30, HOUR}

\* browser-side attributes passed to create_session
MoscowProfile ==
    [timezone |-> "Europe/Moscow", language |-> "ru_RU", screen_size |-> "390x844",
     model |-> "iPhone14,2", user_agent |-> UA_SAFARI]

NewYorkProfile ==
    [timezone |-> "America/New_York", language |-> "ru_RU", screen_size |-> "390x844",
     model |-> "iPhone14,2", user_agent |-> UA_SAFARI]

\* the create_session calls of the model: the attributes and ttl_hours
\* (0 stands for None or 0: both are falsy and give the default)
SessionInputs ==
    {[profile |-> MoscowProfile, ttl_hours |-> 0],
     [profile |-> MoscowProfile, ttl_hours |-> 1],
     [profile |-> NewYorkProfile, ttl_hours |-> 0]}

\* app-side FingerprintData of a resolve request
QueryFingerprints ==
    {[timezone |-> "Europe/Moscow", language |-> "ru_RU", screen_size |-> "390x844",
      model |-> "iPhone14,2", user_agent |-> UA_SAFARI],
     [timezone |-> "Europe/Volgograd", language |-> "ru", screen_size |-> "844x390",
      model |-> "iPhone 13 Pro", user_agent |-> UA_APP],
     [timezone |-> NoneVal, language |-> NoneVal, screen_size |-> NoneVal,
      model |-> NoneVal, user_agent |-> NoneVal]}

\* _normalize_fingerprint: `value or ''` for every attribute
normalize_fingerprint(fingerprint) ==
    [timezone |-> IF Falsy(fingerprint.timezone) THEN "" ELSE fingerprint.timezone,
     screen_size |-> IF Falsy(fingerprint.screen_size) THEN "" ELSE fingerprint.screen_size,
     language |-> IF Falsy(fingerprint.language) THEN "" ELSE fingerprint.language,
     model |-> IF Falsy(fingerprint.model) THEN "" ELSE fingerprint.model,
     user_agent |-> IF Falsy(fingerprint.user_agent) THEN "" ELSE fingerprint.user_agent]

(***************************************************************************)
(* State.                                                                  *)
(***************************************************************************)
VARIABLES
    now,              \* the store clock: CURRENT_TIMESTAMP, UTC seconds
    tzOffset,         \* local clock of the processes minus UTC, hours
    ticks,            \* clock steps taken
    store,            \* table deeplink_sessions: session_id -> row
    nextId,           \* next fresh session id (uuid4)
    weights,          \* per process: IntelligentMatcher.weights
    stats,            \* per process: DeepLinkHandler.stats counters
    pc,               \* per process: position in the /resolve handler
    lastFind,         \* the last find_matching_session call: its candidates and result
    matching_session, \* per process: the session find_matching_session returned
    responses,        \* the ResolveResponse of every finished /resolve call, with its
                      \* mark_session_resolved call where it made one
    updates,          \* optimisation cycles that updated a matcher's weights
    lastMatch,        \* the last find_best_match call made on a given list, and its result
    failures,          \* storage calls that raised, with what the method surfaced to its caller
    scoring,           \* per process: the weights a _calculate_match_score call has read so far
    weightsObj,        \* per process: identity of the dict object bound to IntelligentMatcher.weights
    timezone_cache,    \* per process: IntelligentMatcher._timezone_cache, pairs <<key, value>>
    device_similarity_cache, \* per process: IntelligentMatcher._device_similarity_cache, pairs <<key, value>>
    lastCompare,       \* the last comparator call: its inputs and the score it returned
    lastCycle,         \* the last optimisation cycle: the weights before it, what it returned and left
    lastThreshold,     \* the last _get_dynamic_threshold call: its fingerprint, clock and result
    tasks,             \* per process: the background tasks _cleanup_task and _optimization_task
    lifespan          \* per process: position in the lifespan (startup_tasks, serving, shutdown_tasks)

vars == <<now, tzOffset, ticks, store, nextId, weights, stats, pc, lastFind,
          matching_session, responses, updates, lastMatch, failures, scoring, weightsObj, timezone_cache, device_similarity_cache, lastCompare, lastCycle, lastThreshold, tasks, lifespan>>

\* datetime.now() of a process
LocalNow == now + tzOffset * HOUR

NoSession == [session_id |-> NoneId]

NoFind == [proc |-> "none", candidates |-> <<>>, loadedAt |-> NoTime, returned |-> NoneId]

NoMatchCall == [called |-> FALSE]

\* no optimisation cycle has run
NoCycle == [called |-> FALSE]

\* _get_dynamic_threshold has not been called
NoThreshold == [called |-> FALSE]

\* a task variable that is None
NoTask == [at |-> "none", cancel |-> FALSE]

\* no comparator has been called
NoCompare == [called |-> FALSE]

\* no _calculate_match_score call has been made
NoScoring == [started |-> DefaultWeights, read |-> <<>>, finished |-> DefaultWeights,
              done |-> FALSE]

\* everything but the clock
InitRest ==
    /\ ticks = 0
    /\ weights = [p \in Procs |-> DefaultWeights]
    /\ stats = [p \in Procs |-> [total_requests |-> 0, successful_matches |-> 0, failed_matches |-> 0]]
    /\ pc = [p \in Procs |-> "idle"]
    /\ lastFind = NoFind
    /\ matching_session = [p \in Procs |-> NoSession]
    /\ responses = {}
    /\ updates = 0
    /\ lastMatch = NoMatchCall
    /\ failures = {}
    /\ scoring = [p \in Procs |-> NoScoring]
    /\ weightsObj = [p \in Procs |-> 1]
    /\ timezone_cache = [p \in Procs |-> {}]
    /\ device_similarity_cache = [p \in Procs |-> {}]
    /\ lastCompare = NoCompare
    /\ lastCycle = NoCycle
    /\ lastThreshold = NoThreshold
    /\ tasks = [p \in Procs |-> [cleanup |-> NoTask, optimization |-> NoTask]]
    /\ lifespan = [p \in Procs |-> "not_started"]

InitCommon ==
    /\ now \in StartTimes
    /\ InitRest

Init ==
    /\ InitCommon
    /\ tzOffset \in TzOffsets
    /\ store = [id \in {} |-> 0]
    /\ nextId = 1

(***************************************************************************)
(* create_session                                                          *)
(***************************************************************************)
\* the row INSERTed by create_session; the remaining columns take their defaults
\* (t is CURRENT_TIMESTAMP at the INSERT, local the process clock then)
InsertedRow(session_id, profile, ttl_input, t, local) ==
    LET ttl_hours == IF ttl_input = 0 THEN DEFAULT_TTL_HOURS ELSE ttl_input
    IN  [session_id |-> session_id,
         timezone |-> profile.timezone,
         language |-> profile.language,
         screen_size |-> profile.screen_size,
         model |-> profile.model,
         user_agent |-> profile.user_agent,
         created_at |-> t,
         expires_at |-> local + ttl_hours * HOUR,
         is_resolved |-> FALSE,
         resolved_at |-> NoTime,
         match_confidence |-> NullConfidence,
         match_details |-> SqlNull]

NewRow(session_id, profile, ttl_input) == InsertedRow(session_id, profile, ttl_input, now, LocalNow)

Extend(rows, id, row) == [i \in DOMAIN rows \cup {id} |-> IF i = id THEN row ELSE rows[i]]

\* a variant in which a step may start while another is under way, as with
\* handlers run on threads
AlwaysRunnable(p) == pc[p] \in {"idle", "scoring"}

\* a variant in which /resolve yields to the loop between its two calls, as
\* it would with an await between them
RunnableWithinResolve(p) == pc[p] \in {"idle", "found"}

\* the event loop of process p is free to start another coroutine step: the
\* handlers and the background cycles hold no await between their first
\* and their last statement
Runnable(p) == pc[p] = "idle"

CreateSession(p, profile, ttl_input) ==
    /\ Runnable(p)
    /\ nextId <= MaxSessions
    /\ store' = Extend(store, nextId, NewRow(nextId, profile, ttl_input))
    /\ nextId' = nextId + 1
    /\ UNCHANGED <<now, tzOffset, ticks, weights, stats, pc, lastFind,
                   matching_session, responses, updates, lastMatch, failures, scoring, weightsObj, timezone_cache, device_similarity_cache, lastCompare, lastCycle, lastThreshold, tasks, lifespan>>

(***************************************************************************)
(* find_matching_session                                                   *)
(***************************************************************************)
\* a variant of the SELECT whose WHERE lacks AND is_resolved = FALSE
UnexpiredIds(rows, t) == {id \in DOMAIN rows : rows[id].expires_at > t}

\* WHERE expires_at > CURRENT_TIMESTAMP AND is_resolved = FALSE
EligibleIds(rows, t) == {id \in DOMAIN rows : rows[id].expires_at > t /\ ~rows[id].is_resolved}

\* ORDER BY created_at DESC LIMIT 50: every order of the eligible rows that is
\* newest-first (rows created in the same second come in either order)
CandidateOrders(rows, t) ==
    LET ids == EligibleIds(rows, t)
        n == Cardinality(ids)
        k == Min(n, CANDIDATE_LIMIT)
    IN  {[i \in 1..k |-> rows[order[i]]] :
            order \in {o \in [1..n -> ids] :
                          /\ \A i, j \in 1..n : i # j => o[i] # o[j]
                          /\ \A i, j \in 1..n : i < j => rows[o[i]].created_at >= rows[o[j]].created_at}}

\* the value find_matching_session returns for the loaded candidates:
\* the winning row annotated with confidence and details, or NoSession for None
\* what find_matching_session makes of the matcher's result: on a match the
\* winning row annotated with confidence and details, else NoSession for None
MatchedSession(match_result, cands) ==
    IF match_result.is_match /\ match_result.session_id # NoneId
    THEN LET session == cands[CHOOSE i \in 1..Len(cands) : cands[i].session_id = match_result.session_id]
         IN  [session EXCEPT !.match_confidence = match_result.confidence_score,
                             !.match_details = match_result.details]
    ELSE NoSession

find_matching_session(fingerprint, cands, w, current_time) ==
    IF Len(cands) = 0 THEN NoSession
    ELSE MatchedSession(find_best_match(normalize_fingerprint(fingerprint), cands, w, current_time), cands)

\* the mark_session_resolved call of a response: none was made
NoMark == [called |-> FALSE, rows_affected |-> 0, result |-> FALSE,
           was_resolved |-> FALSE, existed |-> FALSE]

NoMatchResponse(p) == [proc |-> p, success |-> FALSE, matched |-> FALSE, session_id |-> NoneId,
                       error |-> FALSE, mark |-> NoMark]

\* /resolve calls started so far
Started == SumOver([p \in Procs |-> stats[p].total_requests], Procs)

\* /resolve up to the return of find_matching_session; with no match the
\* handler returns its response in the same step
\* the handler after find_matching_session returned `session` for `cands`
FindReturned(p, cands, session) ==
    /\ lastFind' = [proc |-> p, candidates |-> cands, loadedAt |-> now,
                     returned |-> session.session_id]
    /\ matching_session' = [matching_session EXCEPT ![p] = session]
    /\ IF session = NoSession
       THEN /\ stats' = [stats EXCEPT ![p].total_requests = @ + 1, ![p].failed_matches = @ + 1]
            /\ responses' = responses \cup {NoMatchResponse(p)}
            /\ pc' = pc
       ELSE /\ stats' = [stats EXCEPT ![p].total_requests = @ + 1, ![p].successful_matches = @ + 1]
            /\ responses' = responses
            /\ pc' = [pc EXCEPT ![p] = "found"]

ResolveFind(p, fingerprint) ==
    /\ Runnable(p)
    /\ Started < MaxResolves
    /\ \E cands \in CandidateOrders(store, now) :
          FindReturned(p, cands, find_matching_session(fingerprint, cands, weights[p], LocalNow))
    /\ UNCHANGED <<now, tzOffset, ticks, store, nextId, weights, updates, lastMatch, failures, scoring, weightsObj, timezone_cache, device_similarity_cache, lastCompare, lastCycle, lastThreshold, tasks, lifespan>>

(***************************************************************************)
(* mark_session_resolved                                                   *)
(***************************************************************************)
\* UPDATE deeplink_sessions SET ... WHERE session_id = ?: the rows the statement changes
UpdateTargets(rows, session_id) == {id \in DOMAIN rows : id = session_id}

\* a variant of the UPDATE whose SET list lacks is_resolved = TRUE
mark_session_outcome_only(rows, session_id, confidence_score, match_details, t) ==
    LET match_details_json == IF match_details = EmptyDetails THEN SqlNull ELSE json_dumps(match_details)
        targets == UpdateTargets(rows, session_id)
        rows_affected == Cardinality(targets)
    IN  [rows |-> [id \in DOMAIN rows |->
                     IF id \in targets
                     THEN [rows[id] EXCEPT !.resolved_at = t,
                                           !.match_confidence = confidence_score,
                                           !.match_details = match_details_json]
                     ELSE rows[id]],
         rows_affected |-> rows_affected,
         result |-> rows_affected > 0]

\* a variant of the UPDATE that flips is_resolved instead of setting it
mark_session_toggled(rows, session_id, confidence_score, match_details, t) ==
    LET match_details_json == IF match_details = EmptyDetails THEN SqlNull ELSE json_dumps(match_details)
        targets == UpdateTargets(rows, session_id)
        rows_affected == Cardinality(targets)
    IN  [rows |-> [id \in DOMAIN rows |->
                     IF id \in targets
                     THEN [rows[id] EXCEPT !.is_resolved = ~rows[id].is_resolved,
                                           !.resolved_at = t,
                                           !.match_confidence = confidence_score,
                                           !.match_details = match_details_json]
                     ELSE rows[id]],
         rows_affected |-> rows_affected,
         result |-> rows_affected > 0]

mark_session_resolved(rows, session_id, confidence_score, match_details, t) ==
    LET match_details_json == IF match_details = EmptyDetails THEN SqlNull ELSE json_dumps(match_details)
        targets == UpdateTargets(rows, session_id)
        rows_affected == Cardinality(targets)
    IN  [rows |-> [id \in DOMAIN rows |->
                     IF id \in targets
                     THEN [rows[id] EXCEPT !.is_resolved = TRUE,
                                           !.resolved_at = t,
                                           !.match_confidence = confidence_score,
                                           !.match_details = match_details_json]
                     ELSE rows[id]],
         rows_affected |-> rows_affected,
         result |-> rows_affected > 0]

\* the response /resolve builds after mark_session_resolved returned `marked`:
\* the handler does not look at the returned value
ResolveResponse(p, session, marked) ==
    [proc |-> p, success |-> TRUE, matched |-> TRUE, session_id |-> session.session_id,
     error |-> FALSE,
     mark |-> [called |-> TRUE, rows_affected |-> marked.rows_affected, result |-> marked.result,
               was_resolved |-> session.session_id \in DOMAIN store /\ store[session.session_id].is_resolved,
               existed |-> session.session_id \in DOMAIN store]]

\* /resolve from the call of mark_session_resolved to the response
ResolveMark(p) ==
    /\ pc[p] = "found"
    /\ LET session == matching_session[p]
           marked == mark_session_resolved(store, session.session_id, session.match_confidence,
                                           session.match_details, now)
       IN  /\ store' = marked.rows
           /\ responses' = responses \cup {ResolveResponse(p, session, marked)}
    /\ pc' = [pc EXCEPT ![p] = "idle"]
    /\ matching_session' = [matching_session EXCEPT ![p] = NoSession]
    /\ UNCHANGED <<now, tzOffset, ticks, nextId, weights, stats, lastFind, updates, lastMatch, failures, scoring, weightsObj, timezone_cache, device_similarity_cache, lastCompare, lastCycle, lastThreshold, tasks, lifespan>>

(***************************************************************************)
(* cleanup_expired_sessions, run by the cleanup task of a process          *)
(***************************************************************************)
\* DELETE FROM deeplink_sessions WHERE expires_at <= CURRENT_TIMESTAMP
ExpiredIds(rows, t) == {id \in DOMAIN rows : rows[id].expires_at <= t}

cleanup_expired_sessions(rows, t) == [id \in DOMAIN rows \ ExpiredIds(rows, t) |-> rows[id]]

Cleanup(p) ==
    /\ Runnable(p)
    /\ ExpiredIds(store, now) # {}
    /\ store' = cleanup_expired_sessions(store, now)
    /\ UNCHANGED <<now, tzOffset, ticks, nextId, weights, stats, pc, lastFind,
                   matching_session, responses, updates, lastMatch, failures, scoring, weightsObj, timezone_cache, device_similarity_cache, lastCompare, lastCycle, lastThreshold, tasks, lifespan>>

(***************************************************************************)
(* optimization_task of a process: one optimize_algorithm_weights cycle    *)
(***************************************************************************)
Optimize(p, roundUp) ==
    /\ Runnable(p)
    /\ updates < MaxUpdates
    /\ LET r == optimize_algorithm_weights(store, weights[p], roundUp)
       IN  /\ weights' = [weights EXCEPT ![p] = r.weights]
           /\ updates' = IF r.outcome = "updated" THEN updates + 1 ELSE updates
           /\ lastCycle' = [called |-> TRUE, proc |-> p, before |-> weights[p],
                            roundUp |-> roundUp, outcome |-> r.outcome,
                            returned |-> r.returned, after |-> r.weights]
    /\ UNCHANGED <<now, tzOffset, ticks, store, nextId, stats, pc, lastFind,
                   matching_session, responses, lastMatch, failures, scoring, weightsObj, timezone_cache, device_similarity_cache, lastCompare, lastThreshold, tasks, lifespan>>

(***************************************************************************)
(* Time passes.                                                            *)
(***************************************************************************)
Tick(d) ==
    /\ ticks < MaxTicks
    /\ now' = now + d
    /\ ticks' = ticks + 1
    /\ UNCHANGED <<tzOffset, store, nextId, weights, stats, pc, lastFind,
                   matching_session, responses, updates, lastMatch, failures, scoring, weightsObj, timezone_cache, device_similarity_cache, lastCompare, lastCycle, lastThreshold, tasks, lifespan>>

Next ==
    \/ \E p \in Procs, input \in SessionInputs : CreateSession(p, input.profile, input.ttl_hours)
    \/ \E p \in Procs, fingerprint \in QueryFingerprints : ResolveFind(p, fingerprint)
    \/ \E p \in Procs : ResolveMark(p)
    \/ \E p \in Procs : Cleanup(p)
    \/ \E p \in Procs, roundUp \in BOOLEAN : Optimize(p, roundUp)
    \/ \E d \in TickSteps : Tick(d)

Spec == Init /\ [][Next]_vars

(***************************************************************************)
(* The matcher on given candidate lists.  SpecMatch starts from a table    *)
(* that create_session and mark_session_resolved wrote earlier; it applies *)
(* find_best_match to lists of the table's rows and /resolve to the table. *)
(***************************************************************************)
\* a browser that sent no optional attribute
NullProfile ==
    [timezone |-> NoneVal, language |-> NoneVal, screen_size |-> NoneVal,
     model |-> NoneVal, user_agent |-> UA_SAFARI]

RowsToTable(rows) == [id \in {r.session_id : r \in rows} |-> CHOOSE r \in rows : r.session_id = id]

\* the row after mark_session_resolved stored the outcome of a match at t
ResolvedRow(row, match_result, t) ==
    mark_session_resolved(RowsToTable({row}), row.session_id, match_result.confidence_score,
                          match_result.details, t).rows[row.session_id]

\* three open rows: created 120, 60 and 5 seconds before t
OpenTable(t, local) ==
    RowsToTable({InsertedRow(1, MoscowProfile, 0, t - 120, local - 120),
                 InsertedRow(2, NewYorkProfile, 0, t - 60, local - 60),
                 InsertedRow(3, NullProfile, 0, t - 5, local - 5)})

\* no open unexpired row: one resolved a minute before t, one whose single
\* hour of life began six hours before t
ClosedTable(t, local) ==
    RowsToTable({ResolvedRow(InsertedRow(1, MoscowProfile, 0, t - 120, local - 120),
                             find_best_match(normalize_fingerprint(MoscowProfile),
                                             <<InsertedRow(1, MoscowProfile, 0, t - 120, local - 120)>>,
                                             DefaultWeights, local - 60),
                             t - 60),
                 InsertedRow(2, MoscowProfile, 1, t - 6 * HOUR, local - 6 * HOUR)})

MatchTables(t, local) == {[id \in {} |-> 0], OpenTable(t, local), ClosedTable(t, local)}

InitMatch ==
    /\ InitCommon
    /\ tzOffset \in TzOffsets
    /\ store \in MatchTables(now, LocalNow)
    /\ nextId = Cardinality(DOMAIN store) + 1

\* the lists of at most MaxCandidates distinct rows of the table, in any order
CandidateLists(rows) ==
    LET k == Min(MaxCandidates, Cardinality(DOMAIN rows))
    IN  {[i \in DOMAIN order |-> rows[order[i]]] :
            order \in {o \in UNION {[1..n -> DOMAIN rows] : n \in 0..k} :
                          \A i, j \in DOMAIN o : i # j => o[i] # o[j]}}

\* a call of the matcher of process p on a list of candidates
BestMatch(p, fingerprint, cands) ==
    /\ Runnable(p)
    /\ lastMatch' = [called |-> TRUE,
                     fingerprint |-> normalize_fingerprint(fingerprint),
                     candidates |-> cands,
                     weights |-> weights[p],
                     current_time |-> LocalNow,
                     result |-> find_best_match(normalize_fingerprint(fingerprint), cands,
                                                weights[p], LocalNow)]
    /\ UNCHANGED <<now, tzOffset, ticks, store, nextId, weights, stats, pc, lastFind,
                   matching_session, responses, updates, failures, scoring, weightsObj, timezone_cache, device_similarity_cache, lastCompare, lastCycle, lastThreshold, tasks, lifespan>>

NextMatch ==
    \/ \E p \in Procs, fingerprint \in QueryFingerprints :
          \E cands \in CandidateLists(store) : BestMatch(p, fingerprint, cands)
    \/ \E p \in Procs, fingerprint \in QueryFingerprints : ResolveFind(p, fingerprint)
    \/ \E p \in Procs : ResolveMark(p)

SpecMatch == InitMatch /\ [][NextMatch]_vars

(***************************************************************************)
(* Weight adaptation on a given history.  SpecAdapt starts from a table of *)
(* resolved rows and runs optimisation cycles.  The match_details column   *)
(* is free text: besides what mark_session_resolved writes, the history    *)
(* may hold records of another writer of the table, which the cycle's      *)
(* parsing step provides for.                                              *)
(***************************************************************************)
HistoryKinds == {"full", "low", "partial", "malformed", "list"}

\* a breakdown with four of the five component scores: 0.0, 0.5, 0.7, 0.0
PartialDetails ==
    [component_scores |-> [c \in {"timezone", "screen", "language", "device"} |->
                              CASE c = "timezone" -> 0
                                [] c = "screen" -> (SCALE * 50) \div 100
                                [] c = "language" -> (SCALE * 70) \div 100
                                [] c = "device" -> 0]]

\* a resolved row of the history: "full" and "low" as mark_session_resolved
\* wrote them for a match found 120 seconds and 2 hours after creation
\* (confidence 1.0 and 0.7), the other kinds with confidence 0.9
HistoryRow(id, kind, t) ==
    LET base == InsertedRow(id, MoscowProfile, 0, t - 3 * HOUR, t - 3 * HOUR)
        foreign == [base EXCEPT !.is_resolved = TRUE, !.resolved_at = t - 300,
                                !.match_confidence = <<9, 10>>]
    IN  CASE kind = "full" ->
               ResolvedRow(base, find_best_match(normalize_fingerprint(MoscowProfile), <<base>>,
                                                 DefaultWeights, base.created_at + 120), t - 300)
          [] kind = "low" ->
               ResolvedRow(base, find_best_match(normalize_fingerprint(MoscowProfile), <<base>>,
                                                 DefaultWeights, base.created_at + 2 * HOUR), t - 300)
          [] kind = "partial" -> [foreign EXCEPT !.match_details = json_dumps(PartialDetails)]
          [] kind = "malformed" -> [foreign EXCEPT !.match_details = MalformedText]
          [] kind = "list" -> [foreign EXCEPT !.match_details = JsonList]

\* the histories: how many rows of each kind, at most MaxHistory rows
Histories == {h \in [HistoryKinds -> 0..MaxHistory] : SumOver(h, HistoryKinds) <= MaxHistory}

KindOf(h, id) ==
    IF id <= h["full"] THEN "full"
    ELSE IF id <= h["full"] + h["low"] THEN "low"
    ELSE IF id <= h["full"] + h["low"] + h["partial"] THEN "partial"
    ELSE IF id <= h["full"] + h["low"] + h["partial"] + h["malformed"] THEN "malformed"
    ELSE "list"

HistoryTable(h, t) == [id \in 1..SumOver(h, HistoryKinds) |-> HistoryRow(id, KindOf(h, id), t)]

InitAdapt ==
    /\ InitCommon
    /\ tzOffset = 0
    /\ \E h \in Histories : store = HistoryTable(h, now)
    /\ nextId = Cardinality(DOMAIN store) + 1

NextAdapt == \E p \in Procs, roundUp \in BOOLEAN : Optimize(p, roundUp)

SpecAdapt == InitAdapt /\ [][NextAdapt]_vars


(***************************************************************************)
(* Storage failures.  db_manager.execute_update / execute_query raise      *)
(* (sqlite3.Error) when the store is unavailable.  create_session turns    *)
(* any exception into HTTPException(500); find_matching_session catches    *)
(* every exception, counts a failed match and returns None.  Neither       *)
(* repeats the storage call.                                               *)
(***************************************************************************)
\* create_session whose INSERT raises: no row, the caller gets the exception
CreateSessionFails(p) ==
    /\ Runnable(p)
    /\ failures' = failures \cup {[op |-> "create_session", proc |-> p, db_calls |-> 1,
                                   raised |-> TRUE, returned |-> NoneId]}
    /\ UNCHANGED <<now, tzOffset, ticks, store, nextId, weights, stats, pc, lastFind,
                   matching_session, responses, updates, lastMatch, scoring, weightsObj, timezone_cache, device_similarity_cache, lastCompare, lastCycle, lastThreshold, tasks, lifespan>>

\* /resolve whose find_matching_session has its SELECT raise: the except
\* branch returns None and the handler answers as for no match
ResolveFindFails(p) ==
    /\ Runnable(p)
    /\ Started < MaxResolves
    /\ stats' = [stats EXCEPT ![p].total_requests = @ + 1, ![p].failed_matches = @ + 1]
    /\ matching_session' = [matching_session EXCEPT ![p] = NoSession]
    /\ responses' = responses \cup {NoMatchResponse(p)}
    /\ failures' = failures \cup {[op |-> "find_matching_session", proc |-> p, db_calls |-> 1,
                                   raised |-> FALSE, returned |-> NoSession.session_id]}
    /\ UNCHANGED <<now, tzOffset, ticks, store, nextId, weights, pc, lastFind,
                   updates, lastMatch, scoring, weightsObj, timezone_cache, device_similarity_cache, lastCompare, lastCycle, lastThreshold, tasks, lifespan>>

NextStorage ==
    \/ \E p \in Procs, input \in SessionInputs : CreateSession(p, input.profile, input.ttl_hours)
    \/ \E p \in Procs : CreateSessionFails(p)
    \/ \E p \in Procs, fingerprint \in QueryFingerprints : ResolveFind(p, fingerprint)
    \/ \E p \in Procs : ResolveFindFails(p)
    \/ \E p \in Procs : ResolveMark(p)

SpecStorage == Init /\ [][NextStorage]_vars

(***************************************************************************)
(* /dl with any ttl.  create_deeplink takes ttl as an int query parameter  *)
(* and hands it to create_session as it is; SessionCreate.validate_ttl,    *)
(* which limits a TTL to 1..168 hours, is not on this path.                *)
(***************************************************************************)
\* the greatest TTL SessionCreate.validate_ttl admits, hours
MAX_TTL_HOURS == 168

\* values of the ttl query parameter
TtlValues == {-1, 0, 1, MAX_TTL_HOURS, MAX_TTL_HOURS + 1}

CreateInputs == {[profile |-> profile, ttl_hours |-> ttl] :
                    profile \in {MoscowProfile, NewYorkProfile}, ttl \in TtlValues}

NextCreate ==
    \/ \E p \in Procs, input \in CreateInputs : CreateSession(p, input.profile, input.ttl_hours)
    \/ \E d \in TickSteps : Tick(d)

SpecCreate == Init /\ [][NextCreate]_vars

(***************************************************************************)
(* Scoring after adaptation.  SpecScore starts from a history of resolved  *)
(* rows next to two open candidates, runs optimisation cycles and calls    *)
(* the matcher on the open candidates with the weights the cycles left.    *)
(***************************************************************************)
\* histories of exactly MIN_SAMPLES usable records, all full or all partial
\* (their weight vectors have denominators 25 and 300)
ScoreHistories ==
    {h \in Histories : /\ h["full"] + h["partial"] = MIN_SAMPLES
                       /\ h["full"] \in {0, MIN_SAMPLES}
                       /\ h["low"] = 0 /\ h["malformed"] = 0 /\ h["list"] = 0}

\* the history followed by two open rows created 120 and 5 seconds before t
ScoreTable(h, t, local) ==
    [id \in 1..(SumOver(h, HistoryKinds) + 2) |->
        IF id <= SumOver(h, HistoryKinds) THEN HistoryRow(id, KindOf(h, id), t)
        ELSE IF id = SumOver(h, HistoryKinds) + 1
        THEN InsertedRow(id, MoscowProfile, 0, t - 120, local - 120)
        ELSE InsertedRow(id, NullProfile, 0, t - 5, local - 5)]

InitScore ==
    /\ InitCommon
    /\ tzOffset \in TzOffsets
    /\ \E h \in ScoreHistories : store = ScoreTable(h, now, LocalNow)
    /\ nextId = Cardinality(DOMAIN store) + 1

\* the rows the SELECT of find_matching_session would load
OpenRows(rows, t) == [id \in EligibleIds(rows, t) |-> rows[id]]

NextScore ==
    \/ \E p \in Procs, roundUp \in BOOLEAN : Optimize(p, roundUp)
    \/ \E p \in Procs, fingerprint \in QueryFingerprints :
          \E cands \in CandidateLists(OpenRows(store, now)) : BestMatch(p, fingerprint, cands)

SpecScore == InitScore /\ [][NextScore]_vars

(***************************************************************************)
(* One candidate at every hour of day.  SpecHours starts at each hour of   *)
(* a day with one open candidate of the Moscow profile, created 5 or 120   *)
(* seconds earlier, and calls the matcher with a query that has the same   *)
(* attribute values or differs in the timezone alone.                      *)
(***************************************************************************)
\* UTC seconds of the 24 full hours of day 1
HourStarts == {(24 + h) * HOUR : h \in 0..23}

\* seconds between the creation of the candidate and the query
CandidateAges == {5, 120}

InitHours ==
    /\ InitRest
    /\ now \in HourStarts
    /\ tzOffset \in TzOffsets
    /\ \E age \in CandidateAges :
          store = RowsToTable({InsertedRow(1, MoscowProfile, 0, now - age, LocalNow - age)})
    /\ nextId = 2

NextHours ==
    \E p \in Procs, fingerprint \in {MoscowProfile, NewYorkProfile} :
        \E cands \in CandidateLists(OpenRows(store, now)) : BestMatch(p, fingerprint, cands)

SpecHours == InitHours /\ [][NextHours]_vars

(***************************************************************************)
(* Scoring next to weight updates.  The weighting loop of                  *)
(* _calculate_match_score reads self.weights[weight_key] once per          *)
(* iteration, in the order the scores were inserted.  Request handlers and *)
(* optimization_task are coroutines of one event loop per process and the  *)
(* calls they make are synchronous: a coroutine is suspended only at an    *)
(* await, and none lies inside find_matching_session, find_best_match or   *)
(* optimize_algorithm_weights.  update_weights changes the dict held in    *)
(* self.weights with dict.update: the attribute is never rebound.          *)
(***************************************************************************)
\* the keys in the order _calculate_match_score inserts the scores
ScoreOrder == <<"timezone", "screen", "language", "device", "user_agent">>

\* the weights of vector w as the loop reads them, key by key
ReadsOf(w) == [i \in DOMAIN ScoreOrder |->
                  <<w.num[map_score_key_to_weight(ScoreOrder[i])], w.den>>]

\* a scoring call enters the weighting loop
ScoreBegin(p) ==
    /\ Runnable(p)
    /\ pc' = [pc EXCEPT ![p] = "scoring"]
    /\ scoring' = [scoring EXCEPT ![p] = [started |-> weights[p], read |-> <<>>,
                                          finished |-> weights[p], done |-> FALSE]]
    /\ UNCHANGED <<now, tzOffset, ticks, store, nextId, weights, stats, lastFind,
                   matching_session, responses, updates, lastMatch, failures, weightsObj, timezone_cache, device_similarity_cache, lastCompare, lastCycle, lastThreshold, tasks, lifespan>>

\* one iteration of the loop: self.weights[weight_key] for the next key
ScoreRead(p) ==
    /\ pc[p] = "scoring"
    /\ Len(scoring[p].read) < Len(ScoreOrder)
    /\ scoring' = [scoring EXCEPT ![p].read =
                      Append(@, ReadsOf(weights[p])[Len(scoring[p].read) + 1])]
    /\ UNCHANGED <<now, tzOffset, ticks, store, nextId, weights, stats, pc, lastFind,
                   matching_session, responses, updates, lastMatch, failures, weightsObj, timezone_cache, device_similarity_cache, lastCompare, lastCycle, lastThreshold, tasks, lifespan>>

\* the loop is over and the call returns
ScoreEnd(p) ==
    /\ pc[p] = "scoring"
    /\ Len(scoring[p].read) = Len(ScoreOrder)
    /\ pc' = [pc EXCEPT ![p] = "idle"]
    /\ scoring' = [scoring EXCEPT ![p].finished = weights[p], ![p].done = TRUE]
    /\ UNCHANGED <<now, tzOffset, ticks, store, nextId, weights, stats, lastFind,
                   matching_session, responses, updates, lastMatch, failures, weightsObj, timezone_cache, device_similarity_cache, lastCompare, lastCycle, lastThreshold, tasks, lifespan>>

\* an iteration of optimization_task: optimize_algorithm_weights, whose
\* update_weights mutates the dict of the matcher in place
UpdateWeights(p, roundUp) ==
    /\ Runnable(p)
    /\ updates < MaxUpdates
    /\ weights' = [weights EXCEPT ![p] = optimize_algorithm_weights(store, weights[p], roundUp).weights]
    /\ weightsObj' = [weightsObj EXCEPT ![p] = @]
    /\ updates' = IF optimize_algorithm_weights(store, weights[p], roundUp).outcome = "updated"
                  THEN updates + 1 ELSE updates
    /\ UNCHANGED <<now, tzOffset, ticks, store, nextId, stats, pc, lastFind,
                   matching_session, responses, lastMatch, failures, scoring, timezone_cache, device_similarity_cache, lastCompare, lastCycle, lastThreshold, tasks, lifespan>>

InitWeights ==
    /\ InitCommon
    /\ tzOffset \in TzOffsets
    /\ \E h \in ScoreHistories : store = ScoreTable(h, now, LocalNow)
    /\ nextId = Cardinality(DOMAIN store) + 1

NextWeights ==
    \/ \E p \in Procs : ScoreBegin(p)
    \/ \E p \in Procs : ScoreRead(p)
    \/ \E p \in Procs : ScoreEnd(p)
    \/ \E p \in Procs, roundUp \in BOOLEAN : UpdateWeights(p, roundUp)

SpecWeights == InitWeights /\ [][NextWeights]_vars

(***************************************************************************)
(* The similarity caches.  _timezone_similarity and _device_similarity     *)
(* look their result up under cache_key = f"{a}:{b}" before computing it   *)
(* and store every computed result under that key.  The timezone key is    *)
(* formatted from the raw values (None prints as "None"), the device key   *)
(* from the lowercased and stripped str() of the values.  The operators    *)
(* timezone_similarity and device_similarity above are the computations    *)
(* behind the cache; the profiles of the other specifications give keys    *)
(* that no two different pairs share.                                      *)
(***************************************************************************)
timezone_cache_key(browser_tz, app_tz) == Str(browser_tz) \o ":" \o Str(app_tz)

device_cache_key(browser_model, app_model) ==
    StrLower(Str(browser_model)) \o ":" \o StrLower(Str(app_model))

\* the cache's value for a key it holds
CacheGet(cache, key) == (CHOOSE e \in cache : e[1] = key)[2]

\* cache[key] = value
CachePut(cache, key, value) == {e \in cache : e[1] # key} \cup {<<key, value>>}

\* timezone pairs <<candidate value, query value>>: the candidate value is
\* the timezone query parameter of /dl (None when absent), the query value
\* the normalised fingerprint field
TimezonePairs ==
    {<<NoneVal, "Europe/Moscow">>, <<"None", "Europe/Moscow">>,
     <<"Europe/Moscow", "Europe/Moscow">>}

\* device-model pairs <<candidate value, query value>>
DevicePairs ==
    {<<"iPhone14,2", "iPhone 13 Pro">>, <<":", ":">>, <<"", "::">>}

\* the computation of _timezone_similarity on a pair
TimezoneScore(pair) == timezone_similarity([timezone |-> pair[1]], [timezone |-> pair[2]])

\* the computation of _device_similarity on a pair
DeviceScore(pair) == device_similarity([model |-> pair[1]], [model |-> pair[2]])

\* a call of _timezone_similarity by a scoring call of process p
TimezoneSimilarityCall(p, pair) ==
    LET cache_key == timezone_cache_key(pair[1], pair[2])
        hit == \E e \in timezone_cache[p] : e[1] = cache_key
        result == IF hit THEN CacheGet(timezone_cache[p], cache_key) ELSE TimezoneScore(pair)
    IN  /\ Runnable(p)
        /\ timezone_cache' = [timezone_cache EXCEPT ![p] =
                                 IF hit THEN @ ELSE CachePut(@, cache_key, result)]
        /\ lastCompare' = [called |-> TRUE, proc |-> p, cache |-> "timezone",
                           pair |-> pair, hit |-> hit, result |-> result]
        /\ UNCHANGED <<now, tzOffset, ticks, store, nextId, weights, stats, pc, lastFind,
                       matching_session, responses, updates, lastMatch, failures, scoring,
                       weightsObj, device_similarity_cache, lastCycle, lastThreshold, tasks, lifespan>>

\* a call of _device_similarity by a scoring call of process p
DeviceSimilarityCall(p, pair) ==
    LET cache_key == device_cache_key(pair[1], pair[2])
        hit == \E e \in device_similarity_cache[p] : e[1] = cache_key
        result == IF hit THEN CacheGet(device_similarity_cache[p], cache_key)
                  ELSE DeviceScore(pair)
    IN  /\ Runnable(p)
        /\ device_similarity_cache' = [device_similarity_cache EXCEPT ![p] =
                                          IF hit THEN @ ELSE CachePut(@, cache_key, result)]
        /\ lastCompare' = [called |-> TRUE, proc |-> p, cache |-> "device",
                           pair |-> pair, hit |-> hit, result |-> result]
        /\ UNCHANGED <<now, tzOffset, ticks, store, nextId, weights, stats, pc, lastFind,
                       matching_session, responses, updates, lastMatch, failures, scoring,
                       weightsObj, timezone_cache, lastCycle, lastThreshold, tasks, lifespan>>

\* clear_cache, called by optimization_task after each cycle
ClearCache(p) ==
    /\ Runnable(p)
    /\ device_similarity_cache' = [device_similarity_cache EXCEPT ![p] = {}]
    /\ timezone_cache' = [timezone_cache EXCEPT ![p] = {}]
    /\ UNCHANGED <<now, tzOffset, ticks, store, nextId, weights, stats, pc, lastFind,
                   matching_session, responses, updates, lastMatch, failures, scoring,
                   weightsObj, lastCompare, lastCycle, lastThreshold, tasks, lifespan>>

NextCache ==
    \/ \E p \in Procs, pair \in TimezonePairs : TimezoneSimilarityCall(p, pair)
    \/ \E p \in Procs, pair \in DevicePairs : DeviceSimilarityCall(p, pair)
    \/ \E p \in Procs : ClearCache(p)

SpecCache == Init /\ [][NextCache]_vars

(***************************************************************************)
(* Missing attributes.  /dl passes every optional query parameter to       *)
(* create_session as it arrived: None when the parameter is absent, ''     *)
(* when it is empty; the row read back by find_matching_session carries    *)
(* None for a NULL column.                                                 *)
(***************************************************************************)
\* a browser that sent every optional attribute empty and no User-Agent header
EmptyProfile ==
    [timezone |-> "", language |-> "", screen_size |-> "", model |-> "", user_agent |-> ""]

MissingProfiles == {MoscowProfile, NullProfile, EmptyProfile}

NextMissing ==
    \/ \E p \in Procs, profile \in MissingProfiles : CreateSession(p, profile, 0)
    \/ \E p \in Procs, fingerprint \in QueryFingerprints :
          \E id \in DOMAIN store : BestMatch(p, fingerprint, <<store[id]>>)

SpecMissing == Init /\ [][NextMissing]_vars

(***************************************************************************)
(* The decision threshold over the day.  _get_dynamic_threshold reads      *)
(* datetime.now().hour of the process and the quality of the normalised    *)
(* query fingerprint.                                                      *)
(***************************************************************************)
\* the clock at every half hour of a day
HalfHourStarts == {24 * HOUR + k * (HOUR \div 2) : k \in 0..47}

\* normalised query fingerprints of quality 1.0, 0.8, 0.55, 0.4, 0.3 and 0.1
ThresholdFingerprints ==
    {normalize_fingerprint(MoscowProfile),
     [normalize_fingerprint(MoscowProfile) EXCEPT !.language = ""],
     [normalize_fingerprint(MoscowProfile) EXCEPT !.language = "", !.model = "", !.user_agent = ""],
     [normalize_fingerprint(MoscowProfile) EXCEPT !.language = "", !.model = "", !.screen_size = ""],
     [normalize_fingerprint(MoscowProfile) EXCEPT !.language = "", !.model = "", !.screen_size = "",
                                                  !.user_agent = ""],
     normalize_fingerprint(NullProfile)}

\* a call of _get_dynamic_threshold by the matcher of process p
ThresholdCall(p, app_fingerprint) ==
    /\ Runnable(p)
    /\ lastThreshold' = [called |-> TRUE, proc |-> p, app_fingerprint |-> app_fingerprint,
                         current_time |-> LocalNow,
                         result |-> get_dynamic_threshold(app_fingerprint, (LocalNow \div HOUR) % 24)]
    /\ UNCHANGED <<now, tzOffset, ticks, store, nextId, weights, stats, pc, lastFind,
                   matching_session, responses, updates, lastMatch, failures, scoring,
                   weightsObj, timezone_cache, device_similarity_cache, lastCompare, lastCycle, tasks, lifespan>>

InitThreshold ==
    /\ InitRest
    /\ now \in HalfHourStarts
    /\ tzOffset \in TzOffsets
    /\ store = [id \in {} |-> 0]
    /\ nextId = 1

NextThreshold == \E p \in Procs, app_fingerprint \in ThresholdFingerprints : ThresholdCall(p, app_fingerprint)

SpecThreshold == InitThreshold /\ [][NextThreshold]_vars

(***************************************************************************)
(* The temporal multiplier over the age of the candidate.  The table holds *)
(* one open row created the given number of seconds before the query, or a *)
(* row of another writer whose created_at is NULL.                         *)
(***************************************************************************)
\* seconds between creation and query, on both sides of every boundary, and
\* 5 hours 10 minutes
TemporalAges == {5, 10, 29, 30, 600, 601, 3600, 3601, 14400, 14401, 18600, 86400, 86401}

InitTemporal ==
    /\ InitCommon
    /\ tzOffset \in TzOffsets
    /\ \/ \E age \in TemporalAges :
             store = RowsToTable({InsertedRow(1, MoscowProfile, 0, now - age, LocalNow - age)})
       \/ store = RowsToTable({[InsertedRow(1, MoscowProfile, 0, now, LocalNow)
                                  EXCEPT !.created_at = NoTime]})
    /\ nextId = 2

NextTemporal ==
    \E p \in Procs, fingerprint \in QueryFingerprints :
        \E id \in DOMAIN store : BestMatch(p, fingerprint, <<store[id]>>)

SpecTemporal == InitTemporal /\ [][NextTemporal]_vars

(***************************************************************************)
(* The background tasks and the lifespan.  cleanup_task and                *)
(* optimization_task loop forever: one synchronous iteration inside        *)
(* try / except Exception, then await asyncio.sleep, their only suspension *)
(* point.  An iteration is taken in two steps that hold the event loop.    *)
(* Task.cancel() requests the cancellation; CancelledError is raised in    *)
(* the task at the await it is suspended on (or before its first step).    *)
(* shutdown_tasks cancels and awaits one task after the other.             *)
(***************************************************************************)
TaskNames == {"cleanup", "optimization"}

\* a variant in which an exception of an iteration leaves the loop
AfterExceptionUncaught(task) == [task EXCEPT !.at = "failed"]

\* the task after an iteration raised: except Exception logs, the loop goes on to its sleep
AfterException(task) == [task EXCEPT !.at = "asleep"]

\* startup_tasks: asyncio.create_task for both loops
StartupTasks(p) ==
    /\ Runnable(p)
    /\ lifespan[p] = "not_started"
    /\ tasks' = [tasks EXCEPT ![p] = [n \in TaskNames |-> [at |-> "asleep", cancel |-> FALSE]]]
    /\ lifespan' = [lifespan EXCEPT ![p] = "serving"]
    /\ UNCHANGED <<now, tzOffset, ticks, store, nextId, weights, stats, pc, lastFind,
                   matching_session, responses, updates, lastMatch, failures, scoring,
                   weightsObj, timezone_cache, device_similarity_cache, lastCompare,
                   lastCycle, lastThreshold>>

\* the event loop resumes a task that is not to be cancelled: its iteration begins
IterationBegin(p, n) ==
    /\ Runnable(p)
    /\ tasks[p][n].at = "asleep"
    /\ ~tasks[p][n].cancel
    /\ n = "optimization" => updates < MaxUpdates
    /\ tasks' = [tasks EXCEPT ![p][n].at = "iterating"]
    /\ pc' = [pc EXCEPT ![p] = n]
    /\ UNCHANGED <<now, tzOffset, ticks, store, nextId, weights, stats, lastFind,
                   matching_session, responses, updates, lastMatch, failures, scoring,
                   weightsObj, timezone_cache, device_similarity_cache, lastCompare,
                   lastCycle, lastThreshold, lifespan>>

\* the iteration of cleanup_task completes: the DELETE, then the sleep
CleanupIterationEnd(p) ==
    /\ pc[p] = "cleanup"
    /\ tasks[p]["cleanup"].at = "iterating"
    /\ store' = cleanup_expired_sessions(store, now)
    /\ tasks' = [tasks EXCEPT ![p]["cleanup"].at = "asleep"]
    /\ pc' = [pc EXCEPT ![p] = "idle"]
    /\ UNCHANGED <<now, tzOffset, ticks, nextId, weights, stats, lastFind,
                   matching_session, responses, updates, lastMatch, failures, scoring,
                   weightsObj, timezone_cache, device_similarity_cache, lastCompare,
                   lastCycle, lastThreshold, lifespan>>

\* the state a finished iteration of optimization_task leaves, r being what
\* its optimize_algorithm_weights call did
OptimizationIterationResult(p, roundUp, r) ==
    /\ weights' = [weights EXCEPT ![p] = r.weights]
    /\ updates' = IF r.outcome = "updated" THEN updates + 1 ELSE updates
    /\ lastCycle' = [called |-> TRUE, proc |-> p, before |-> weights[p],
                     roundUp |-> roundUp, outcome |-> r.outcome,
                     returned |-> r.returned, after |-> r.weights]
    /\ device_similarity_cache' = [device_similarity_cache EXCEPT ![p] = {}]
    /\ timezone_cache' = [timezone_cache EXCEPT ![p] = {}]
    /\ tasks' = [tasks EXCEPT ![p]["optimization"].at = "asleep"]
    /\ pc' = [pc EXCEPT ![p] = "idle"]
    /\ UNCHANGED <<now, tzOffset, ticks, store, nextId, stats, lastFind,
                   matching_session, responses, lastMatch, failures, scoring,
                   weightsObj, lastCompare, lastThreshold, lifespan>>

\* the iteration of optimization_task completes: the cycle, clear_cache, then the sleep
OptimizationIterationEnd(p, roundUp) ==
    /\ pc[p] = "optimization"
    /\ tasks[p]["optimization"].at = "iterating"
    /\ OptimizationIterationResult(p, roundUp, optimize_algorithm_weights(store, weights[p], roundUp))

\* the iteration raises before it wrote anything
IterationRaises(p, n) ==
    /\ pc[p] = n
    /\ tasks[p][n].at = "iterating"
    /\ tasks' = [tasks EXCEPT ![p][n] = AfterException(@)]
    /\ pc' = [pc EXCEPT ![p] = "idle"]
    /\ UNCHANGED <<now, tzOffset, ticks, store, nextId, weights, stats, lastFind,
                   matching_session, responses, updates, lastMatch, failures, scoring,
                   weightsObj, timezone_cache, device_similarity_cache, lastCompare,
                   lastCycle, lastThreshold, lifespan>>

\* shutdown_tasks up to its first await: _cleanup_task.cancel()
ShutdownTasks(p) ==
    /\ Runnable(p)
    /\ lifespan[p] = "serving"
    /\ tasks' = [tasks EXCEPT ![p]["cleanup"].cancel = TRUE]
    /\ lifespan' = [lifespan EXCEPT ![p] = "await_cleanup"]
    /\ UNCHANGED <<now, tzOffset, ticks, store, nextId, weights, stats, pc, lastFind,
                   matching_session, responses, updates, lastMatch, failures, scoring,
                   weightsObj, timezone_cache, device_similarity_cache, lastCompare,
                   lastCycle, lastThreshold>>

\* the event loop resumes a task whose cancellation was requested:
\* CancelledError is raised at its await and ends the task
DeliverCancel(p, n) ==
    /\ Runnable(p)
    /\ tasks[p][n].cancel
    /\ tasks[p][n].at = "asleep"
    /\ tasks' = [tasks EXCEPT ![p][n].at = "cancelled"]
    /\ UNCHANGED <<now, tzOffset, ticks, store, nextId, weights, stats, pc, lastFind,
                   matching_session, responses, updates, lastMatch, failures, scoring,
                   weightsObj, timezone_cache, device_similarity_cache, lastCompare,
                   lastCycle, lastThreshold, lifespan>>

\* await _cleanup_task returns CancelledError: _optimization_task.cancel()
ShutdownAfterCleanup(p) ==
    /\ Runnable(p)
    /\ lifespan[p] = "await_cleanup"
    /\ tasks[p]["cleanup"].at = "cancelled"
    /\ tasks' = [tasks EXCEPT ![p]["optimization"].cancel = TRUE]
    /\ lifespan' = [lifespan EXCEPT ![p] = "await_optimization"]
    /\ UNCHANGED <<now, tzOffset, ticks, store, nextId, weights, stats, pc, lastFind,
                   matching_session, responses, updates, lastMatch, failures, scoring,
                   weightsObj, timezone_cache, device_similarity_cache, lastCompare,
                   lastCycle, lastThreshold>>

\* await _optimization_task returns CancelledError: clear_cache, shutdown_tasks returns
ShutdownAfterOptimization(p) ==
    /\ Runnable(p)
    /\ lifespan[p] = "await_optimization"
    /\ tasks[p]["optimization"].at = "cancelled"
    /\ device_similarity_cache' = [device_similarity_cache EXCEPT ![p] = {}]
    /\ timezone_cache' = [timezone_cache EXCEPT ![p] = {}]
    /\ lifespan' = [lifespan EXCEPT ![p] = "stopped"]
    /\ UNCHANGED <<now, tzOffset, ticks, store, nextId, weights, stats, pc, lastFind,
                   matching_session, responses, updates, lastMatch, failures, scoring,
                   weightsObj, lastCompare, lastCycle, lastThreshold, tasks>>

\* the history of ten breakdowns, an open row and a row that expired hours ago
InitShutdown ==
    /\ InitCommon
    /\ tzOffset \in TzOffsets
    /\ store = [id \in 1..(MIN_SAMPLES + 2) |->
                   IF id <= MIN_SAMPLES THEN HistoryRow(id, "full", now)
                   ELSE IF id = MIN_SAMPLES + 1
                   THEN InsertedRow(id, MoscowProfile, 0, now - 120, LocalNow - 120)
                   ELSE InsertedRow(id, MoscowProfile, 1, now - 8 * HOUR, LocalNow - 8 * HOUR)]
    /\ nextId = MIN_SAMPLES + 3

\* the steps of the event loop of p that finish an iteration under way
IterationFinish(p) ==
    \/ CleanupIterationEnd(p)
    \/ \E roundUp \in BOOLEAN : OptimizationIterationEnd(p, roundUp)
    \/ \E n \in TaskNames : IterationRaises(p, n)

\* the steps of the event loop of p that carry a shutdown forward
ShutdownProgress(p) ==
    \/ \E n \in TaskNames : DeliverCancel(p, n)
    \/ ShutdownAfterCleanup(p)
    \/ ShutdownAfterOptimization(p)

NextShutdown ==
    \/ \E p \in Procs : StartupTasks(p)
    \/ \E p \in Procs, n \in TaskNames : IterationBegin(p, n)
    \/ \E p \in Procs : IterationFinish(p)
    \/ \E p \in Procs : ShutdownTasks(p)
    \/ \E p \in Procs : ShutdownProgress(p)

\* an iteration under way hands the event loop back
IterationCompletes(p) == pc[p] \in TaskNames /\ pc' = [pc EXCEPT ![p] = "idle"]

\* an iteration is synchronous code that runs to its end, and the event
\* loop runs every ready callback in turn: a step that is ready again and
\* again is eventually taken
SpecShutdown ==
    /\ InitShutdown
    /\ [][NextShutdown]_vars
    /\ \A p \in Procs : WF_pc(IterationCompletes(p)) /\ SF_vars(ShutdownProgress(p))

(***************************************************************************)
(* One server process (specification SpecLoop).  The requests and the      *)
(* background cycles of a process are coroutines of one event loop.  The   *)
(* /resolve handlers are async def whose body calls find_matching_session  *)
(* and mark_session_resolved without an await; cleanup_task and            *)
(* optimization_task await only asyncio.sleep, after their cycle.  Only    *)
(* LoopProc serves requests here: what the other process does is the       *)
(* subject of specification Spec.                                          *)
(***************************************************************************)
LoopProc == "p1"

NextLoop ==
    \/ \E input \in SessionInputs : CreateSession(LoopProc, input.profile, input.ttl_hours)
    \/ \E fingerprint \in QueryFingerprints : ResolveFind(LoopProc, fingerprint)
    \/ ResolveMark(LoopProc)
    \/ Cleanup(LoopProc)
    \/ \E roundUp \in BOOLEAN : Optimize(LoopProc, roundUp)
    \/ \E d \in TickSteps : Tick(d)

SpecLoop == Init /\ [][NextLoop]_vars

(***************************************************************************)
(* Properties of resolution (specification Spec)                           *)
(***************************************************************************)
\* process p returns from mark_session_resolved and answers in this step
MarkStep(p) == pc[p] = "found" /\ pc'[p] = "idle"

\* process p runs find_matching_session in this step
FindStep(p) == stats'[p].total_requests = stats[p].total_requests + 1

\* the instant, on the clock of the store, at which the lifetime of a row
\* ends: created_at plus the TTL (expires_at holds it as a reading of the
\* clock of the process)
ExpiryTime(row) == row.expires_at - tzOffset * HOUR

\* C1: of the resolve calls that selected the same candidate at most one
\* reports a successful match to its caller (the others report no match),
\* and no resolve call reports a storage error.
C1_OneSuccessPerCandidate ==
    /\ \A r1, r2 \in responses :
          (r1.matched /\ r2.matched /\ r1.session_id = r2.session_id) => r1 = r2
    /\ \A r \in responses : ~r.error

\* two resolve calls of different processes both answered matched for one candidate
C1_TwoSuccesses ==
    \E r1, r2 \in responses :
        r1.proc # r2.proc /\ r1.matched /\ r2.matched /\ r1.session_id = r2.session_id

\* C2: a mark_session_resolved call on a candidate that is already resolved
\* affects 0 rows, returns failure, and leaves the row (its resolved_at,
\* match_confidence and match_details) as it was.
C2_MarkOnResolvedIsNoOp ==
    [][\A p \in Procs :
          (/\ MarkStep(p)
           /\ matching_session[p].session_id \in DOMAIN store
           /\ store[matching_session[p].session_id].is_resolved)
          => /\ store' = store
             /\ \E r \in responses' :
                   /\ r.proc = p
                   /\ r.session_id = matching_session[p].session_id
                   /\ r.mark.called
                   /\ r.mark.rows_affected = 0
                   /\ ~r.mark.result]_vars

\* a mark_session_resolved call on a resolved row has returned success
C2_ResolvedRowMarkedAgain ==
    \E r \in responses : r.mark.called /\ r.mark.was_resolved /\ r.mark.result

\* C3: a resolve call whose candidate was deleted between its
\* find_matching_session and its mark_session_resolved reports no match
\* (matched = false, no success) and no error.
C3_DeletedCandidateIsNoMatch ==
    \A r \in responses :
        (r.mark.called /\ ~r.mark.existed) => (~r.matched /\ ~r.success /\ ~r.error)

\* a resolve call has marked a candidate that cleanup had deleted
C3_MarkedAfterDelete ==
    \E r \in responses : r.mark.called /\ ~r.mark.existed /\ r.mark.rows_affected = 0

\* C4: a candidate is never reopened: a row with is_resolved = TRUE keeps
\* is_resolved = TRUE in every later state in which the row still exists.
C4_NeverReopened ==
    [][\A id \in DOMAIN store :
          (store[id].is_resolved /\ id \in DOMAIN store') => store'[id].is_resolved]_vars

\* a resolved row that a later mark_session_resolved call has written again
\* and that is still stored as resolved
C4_ResolvedRowRewritten ==
    \E id \in DOMAIN store :
        /\ store[id].is_resolved
        /\ \E r \in responses : r.session_id = id /\ r.mark.called /\ r.mark.was_resolved

\* C5: the pool that find_matching_session loads holds no candidate whose
\* expiry time (created_at plus TTL) has passed at load time, and so the
\* call returns no such candidate.
C5_PoolHasNoExpiredCandidate ==
    \A i \in DOMAIN lastFind.candidates :
        ExpiryTime(lastFind.candidates[i]) >= lastFind.loadedAt

\* find_matching_session has returned a candidate whose expiry time had passed
C5_ExpiredCandidateReturned ==
    \E i \in DOMAIN lastFind.candidates :
        /\ ExpiryTime(lastFind.candidates[i]) < lastFind.loadedAt
        /\ lastFind.candidates[i].session_id = lastFind.returned

\* C6: a find_matching_session call that starts after mark_session_resolved
\* has succeeded for a candidate neither loads that candidate into its pool
\* nor returns it.
C6_ResolvedNeverMatchedAgain ==
    [][\A p \in Procs :
          FindStep(p) =>
             \A r \in responses :
                 r.mark.result =>
                    /\ \A i \in DOMAIN lastFind'.candidates :
                          lastFind'.candidates[i].session_id # r.session_id
                    /\ matching_session'[p].session_id # r.session_id]_vars

\* a find_matching_session call loaded a non-empty pool after a candidate,
\* still stored and unexpired, had been marked resolved
C6_FindAfterResolve ==
    \E r \in responses :
        /\ r.mark.result
        /\ r.session_id \in DOMAIN store
        /\ store[r.session_id].is_resolved
        /\ lastFind.loadedAt > store[r.session_id].resolved_at
        /\ store[r.session_id].expires_at > lastFind.loadedAt
        /\ Len(lastFind.candidates) > 0

(***************************************************************************)
(* Properties of find_best_match (specification SpecMatch)                 *)
(***************************************************************************)
\* the final score of candidate i of the last find_best_match call
LastFinal(i) ==
    FinalNumerator(lastMatch.candidates[i], lastMatch.fingerprint, lastMatch.weights,
                   lastMatch.current_time)

\* C7: for a non-empty candidate list, when find_best_match names a
\* candidate, the final score of that candidate (weighted score times
\* temporal multiplier) is the maximum over all supplied candidates and
\* the reported confidence_score is that maximum.
C7_NamedCandidateHasMaxScore ==
    (lastMatch.called /\ Len(lastMatch.candidates) > 0 /\ lastMatch.result.session_id # NoneId)
    => \E i \in DOMAIN lastMatch.candidates :
          /\ lastMatch.candidates[i].session_id = lastMatch.result.session_id
          /\ \A j \in DOMAIN lastMatch.candidates : LastFinal(j) <= LastFinal(i)
          /\ lastMatch.result.confidence_score =
                Rat(LastFinal(i), SCALE * WeightSum(lastMatch.weights) * 10)

\* find_best_match named the first of two candidates although the second,
\* scanned later, has a positive but smaller final score
C7_FirstOfTwoWins ==
    /\ lastMatch.called
    /\ Len(lastMatch.candidates) = 2
    /\ lastMatch.result.session_id = lastMatch.candidates[1].session_id
    /\ LastFinal(2) > 0
    /\ LastFinal(2) < LastFinal(1)

\* C8: with an empty candidate pool the result is a non-match:
\* find_best_match on an empty list returns is_match False, confidence 0.0,
\* no session id and details reason "no_candidates"; find_matching_session
\* with no open unexpired candidate returns no match and changes no candidate.
C8_EmptyPoolIsNoMatch ==
    [][/\ (lastMatch'.called /\ lastMatch'.candidates = <<>>)
          => lastMatch'.result = [is_match |-> FALSE, confidence_score |-> RatZero,
                                  details |-> [reason |-> "no_candidates"],
                                  session_id |-> NoneId]
       /\ \A p \in Procs :
             (FindStep(p) /\ EligibleIds(store, now) = {})
             => /\ matching_session'[p] = NoSession
                /\ lastFind'.returned = NoneId
                /\ store' = store
                /\ NoMatchResponse(p) \in responses']_vars

\* both calls have run on an empty pool while the table held rows, all of
\* them resolved or expired
C8_BothOnEmptyPool ==
    /\ lastMatch.called
    /\ lastMatch.candidates = <<>>
    /\ lastFind.proc # "none"
    /\ lastFind.candidates = <<>>
    /\ DOMAIN store # {}
    /\ \E p \in Procs : NoMatchResponse(p) \in responses

(***************************************************************************)
(* Properties of weight adaptation (specification SpecAdapt)               *)
(***************************************************************************)
\* the vector sums to 1.0 within 1e-6
SumsToOne(w) ==
    LET diff == Abs(WeightSum(w) - w.den)
    IN  diff = 0 \/ diff <= w.den \div 1000000

\* C9: after any optimize_algorithm_weights cycle, for any history of
\* resolved rows, the weight vector of the matcher sums to 1.0 within 1e-6.
C9_WeightsSumToOne == \A p \in Procs : SumsToOne(weights[p])

\* a cycle has changed the weights of a matcher and left a sum other than 1
C9_SumOff ==
    \E p \in Procs : weights[p] # DefaultWeights /\ ~SumsToOne(weights[p])

\* C10: optimize_algorithm_weights leaves the weight vector unchanged
\* whenever fewer than 10 resolved rows with confidence above 0.7 have a
\* match-detail record that the cycle uses (skipped records do not count).
C10_NoChangeBelowTenUsed ==
    [][\A p \in Procs :
          Cardinality(UsedResults(store)) < MIN_SAMPLES => weights'[p] = weights[p]]_vars

\* a matcher holds changed weights although fewer than 10 records are used
C10_ChangedBelowTenUsed ==
    \E p \in Procs :
        weights[p] # DefaultWeights /\ Cardinality(UsedResults(store)) < MIN_SAMPLES

(***************************************************************************)
(* Properties of storage failures (specification SpecStorage)              *)
(***************************************************************************)
\* C11: when the storage call of create_session or of find_matching_session
\* fails, the method surfaces a hard failure to its caller (it raises; it
\* does not give back the value of a normal no-match), and the storage call
\* is made once, without retry.
C11_StorageFailureIsHardFailure ==
    \A f \in failures : f.raised /\ f.db_calls = 1

\* the SELECT of find_matching_session failed and the method returned None,
\* the value it returns when nothing matches, and the caller was answered
\* with the no-match response
C11_FindFailureReturnedNone ==
    \E f \in failures :
        /\ f.op = "find_matching_session"
        /\ ~f.raised
        /\ f.returned = NoSession.session_id
        /\ NoMatchResponse(f.proc) \in responses

(***************************************************************************)
(* Properties of create_session (specification SpecCreate)                 *)
(***************************************************************************)
\* the lifetime given to a row: its expiry instant minus its creation instant
Lifetime(row) == ExpiryTime(row) - row.created_at

\* C12: every candidate created by create_session, whatever ttl the caller
\* passed, has a lifetime (expiry minus creation) that is positive and at
\* most the maximum of 168 hours.
C12_LifetimePositiveAndBounded ==
    \A id \in DOMAIN store :
        Lifetime(store[id]) > 0 /\ Lifetime(store[id]) <= MAX_TTL_HOURS * HOUR

\* one candidate was created already expired and another with a lifetime
\* beyond the maximum
C12_ExpiredAndOverlongCreated ==
    /\ \E id \in DOMAIN store : Lifetime(store[id]) < 0
    /\ \E id \in DOMAIN store : Lifetime(store[id]) > MAX_TTL_HOURS * HOUR

(***************************************************************************)
(* Properties of the stored outcome (specification Spec)                   *)
(***************************************************************************)
\* the row carries a resolution outcome
HasOutcome(row) ==
    \/ row.match_confidence # NullConfidence
    \/ row.match_details # SqlNull
    \/ row.resolved_at # NoTime

\* C13: in every reachable store state a row carries a resolution outcome
\* (match_confidence, match_details or resolved_at non-null) only if its
\* is_resolved is TRUE, and find_matching_session, which annotates its own
\* copy of the winner, writes nothing to the store.
C13_OutcomeOnlyWhenResolved ==
    /\ [](\A id \in DOMAIN store : HasOutcome(store[id]) => store[id].is_resolved)
    /\ [][\A p \in Procs : FindStep(p) => store' = store]_vars

\* find_matching_session has returned its annotated copy of a winner whose
\* stored row is open and without outcome, next to a resolved row with one
C13_AnnotatedCopyOfOpenRow ==
    \E p \in Procs :
        /\ pc[p] = "found"
        /\ matching_session[p].match_confidence # NullConfidence
        /\ matching_session[p].session_id \in DOMAIN store
        /\ ~store[matching_session[p].session_id].is_resolved
        /\ ~HasOutcome(store[matching_session[p].session_id])
        /\ \E id \in DOMAIN store : store[id].is_resolved /\ HasOutcome(store[id])

(***************************************************************************)
(* Properties of the score ranges (specification SpecScore)                *)
(***************************************************************************)
\* C14: for every candidate and query of a find_best_match call, under the
\* default weights and under every weight vector adaptation cycles leave,
\* each of the five comparator scores and the temporal multiplier lie in
\* [0,1], and so does the confidence_score the call returns.
C14_ScoresInUnitInterval ==
    lastMatch.called =>
        /\ \A i \in DOMAIN lastMatch.candidates :
              /\ \A k \in ScoreKeys :
                    /\ component_scores(lastMatch.candidates[i], lastMatch.fingerprint)[k] >= 0
                    /\ component_scores(lastMatch.candidates[i], lastMatch.fingerprint)[k] <= SCALE
              /\ validate_temporal_patterns(lastMatch.candidates[i], lastMatch.current_time) >= 0
              /\ validate_temporal_patterns(lastMatch.candidates[i], lastMatch.current_time) <= 10
        /\ lastMatch.result.confidence_score[1] >= 0
        /\ lastMatch.result.confidence_score[2] > 0
        /\ lastMatch.result.confidence_score[1] <= lastMatch.result.confidence_score[2]

\* a call scored two candidates with weights an adaptation cycle had left
\* summing to more than 1, and returned a confidence of exactly 1.0
C14_FullScoreUnderAdaptedWeights ==
    /\ lastMatch.called
    /\ Len(lastMatch.candidates) = 2
    /\ lastMatch.weights # DefaultWeights
    /\ WeightSum(lastMatch.weights) > lastMatch.weights.den
    /\ lastMatch.result.confidence_score = <<1, 1>>

(***************************************************************************)
(* Properties of the scenarios (specification SpecHours)                   *)
(***************************************************************************)
\* the last find_best_match call scored the one Moscow candidate, created
\* `age` seconds before the query, against the fingerprint of `profile`
ScenarioCall(profile, age) ==
    /\ lastMatch.called
    /\ lastMatch.fingerprint = normalize_fingerprint(profile)
    /\ Len(lastMatch.candidates) = 1
    /\ lastMatch.candidates[1].timezone = MoscowProfile.timezone
    /\ now - lastMatch.candidates[1].created_at = age

\* the comparator scores of that call
ScenarioScores == component_scores(lastMatch.candidates[1], lastMatch.fingerprint)

\* the temporal multiplier of that call, in tenths
ScenarioTemporal == validate_temporal_patterns(lastMatch.candidates[1], lastMatch.current_time)

\* the hour of day at which that call was made
ScenarioHour == (lastMatch.current_time \div HOUR) % 24

\* C15: with the default weights the Moscow candidate, scored 120 seconds
\* after its creation against a query with identical attribute values, gets
\* all five comparator scores 1.0, temporal multiplier 1.0, final score 1.0
\* and the decision match, at every hour of day.
C15_IdenticalQueryMatches ==
    ScenarioCall(MoscowProfile, 120) =>
        /\ \A k \in ScoreKeys : ScenarioScores[k] = SCALE
        /\ ScenarioTemporal = 10
        /\ lastMatch.result.confidence_score = <<1, 1>>
        /\ lastMatch.result.is_match

\* the identical query 120 seconds after creation got a temporal multiplier
\* below 1.0 and was declared no match
C15_IdenticalQueryRejected ==
    /\ ScenarioCall(MoscowProfile, 120)
    /\ ScenarioTemporal < 10
    /\ ~lastMatch.result.is_match

\* C16 as stated: the same candidate scored at T+120s against a query that
\* differs only in timezone (America/New_York) gets timezone score 0.0 and
\* the decision no match, whatever the hour of day.
C16_OtherTimezoneNeverMatches ==
    ScenarioCall(NewYorkProfile, 120) =>
        /\ ScenarioScores["timezone"] = 0
        /\ ~lastMatch.result.is_match

\* C16 amended: that query gets timezone score 0.0 and weighted score 0.65;
\* the decision is no match at the hours 09..21, where the threshold is
\* 0.70, and it is match at the other hours, where the threshold is 0.60,
\* when the temporal multiplier is 1.0.
C16_OtherTimezoneNoMatchInBusinessHours ==
    ScenarioCall(NewYorkProfile, 120) =>
        /\ ScenarioScores["timezone"] = 0
        /\ calculate_match_score(lastMatch.candidates[1], lastMatch.fingerprint,
                                 lastMatch.weights).weighted_score = <<13, 20>>
        /\ (9 <= ScenarioHour /\ ScenarioHour <= 21) => ~lastMatch.result.is_match
        /\ (~(9 <= ScenarioHour /\ ScenarioHour <= 21) /\ ScenarioTemporal = 10)
              => lastMatch.result.is_match

\* the query with the other timezone was scored 0.65 at a business hour,
\* with temporal multiplier 1.0, and rejected
C16_RejectedInBusinessHours ==
    /\ ScenarioCall(NewYorkProfile, 120)
    /\ 9 <= ScenarioHour /\ ScenarioHour <= 21
    /\ ScenarioTemporal = 10
    /\ lastMatch.result.confidence_score = <<13, 20>>
    /\ ~lastMatch.result.is_match

\* C17: a candidate whose age at query time is under 10 seconds is never
\* declared a match, whatever its attribute scores, the fingerprint quality
\* of the query and the hour of day.
C17_YoungCandidateNeverMatches ==
    (/\ lastMatch.called
     /\ Len(lastMatch.candidates) = 1
     /\ now - lastMatch.candidates[1].created_at < 10)
    => ~lastMatch.result.is_match

\* a candidate 5 seconds old was declared a match
C17_YoungCandidateMatched ==
    /\ ScenarioCall(MoscowProfile, 5)
    /\ lastMatch.result.is_match
    /\ lastMatch.result.session_id = lastMatch.candidates[1].session_id

(***************************************************************************)
(* Properties of ties (specification Spec)                                 *)
(***************************************************************************)
\* C18: when several candidates share the greatest final score, the one
\* reported is the first of them in the list supplied to find_best_match,
\* which is the most recently created of them, the list being newest-first;
\* a later candidate with an equal final score never replaces an earlier one.
C18_FirstOfEqualWins ==
    [][\A p \in Procs, fingerprint \in QueryFingerprints :
          (/\ FindStep(p)
           /\ lastFind'.returned # NoneId
           /\ matching_session'[p] =
                 find_matching_session(fingerprint, lastFind'.candidates, weights[p], LocalNow))
          => \E i \in DOMAIN lastFind'.candidates :
                /\ lastFind'.candidates[i].session_id = lastFind'.returned
                /\ \A j \in DOMAIN lastFind'.candidates :
                      /\ FinalNumerator(lastFind'.candidates[j], normalize_fingerprint(fingerprint),
                                        weights[p], LocalNow)
                         <= FinalNumerator(lastFind'.candidates[i], normalize_fingerprint(fingerprint),
                                           weights[p], LocalNow)
                      /\ (FinalNumerator(lastFind'.candidates[j], normalize_fingerprint(fingerprint),
                                         weights[p], LocalNow)
                          = FinalNumerator(lastFind'.candidates[i], normalize_fingerprint(fingerprint),
                                           weights[p], LocalNow))
                         => /\ i <= j
                            /\ lastFind'.candidates[j].created_at
                                  <= lastFind'.candidates[i].created_at]_vars

\* find_matching_session returned the first, newer one of two candidates
\* with the same attributes, created at different times and both waiting
\* for between 30 and 600 seconds, which gives them equal final scores
C18_NewerOfTwoEqualReturned ==
    /\ Len(lastFind.candidates) = 2
    /\ lastFind.returned = lastFind.candidates[1].session_id
    /\ lastFind.candidates[1].timezone = lastFind.candidates[2].timezone
    /\ lastFind.candidates[1].created_at > lastFind.candidates[2].created_at
    /\ tzOffset = 0
    /\ lastFind.loadedAt - lastFind.candidates[1].created_at >= 30
    /\ lastFind.loadedAt - lastFind.candidates[2].created_at <= 600

(***************************************************************************)
(* Properties of scoring next to weight updates (specification SpecWeights)*)
(***************************************************************************)
\* a finished scoring call read, for all five features, the vector the
\* matcher held when the call began or the one it held when the call ended
ReadOneVector(p) ==
    scoring[p].done =>
        \/ scoring[p].read = ReadsOf(scoring[p].started)
        \/ scoring[p].read = ReadsOf(scoring[p].finished)

UncachedScore(call) ==
    IF call.cache = "timezone" THEN TimezoneScore(call.pair) ELSE DeviceScore(call.pair)

\* C20: memoization is transparent.  In both caches every stored value is
\* the uncached comparator result of every input pair that maps to its key,
\* and a comparator call returns the uncached score of its pair whatever was
\* scored before and whether or not clear_cache ran in between.
C20_MemoizationTransparent ==
    /\ \A p \in Procs :
          /\ \A e \in timezone_cache[p] : \A pair \in TimezonePairs :
                timezone_cache_key(pair[1], pair[2]) = e[1] => e[2] = TimezoneScore(pair)
          /\ \A e \in device_similarity_cache[p] : \A pair \in DevicePairs :
                device_cache_key(pair[1], pair[2]) = e[1] => e[2] = DeviceScore(pair)
    /\ lastCompare.called => lastCompare.result = UncachedScore(lastCompare)

\* a comparator call answered from its cache with a score that is not the
\* uncached score of its pair
C20_OtherPairsScoreReturned ==
    /\ lastCompare.called
    /\ lastCompare.hit
    /\ lastCompare.result # UncachedScore(lastCompare)

(***************************************************************************)
(* Properties of the comparators on missing data (specification            *)
(* SpecMissing)                                                            *)
(***************************************************************************)
\* the attribute a component score is computed from
AttributeOf(k) ==
    CASE k = "timezone" -> "timezone"
      [] k = "screen" -> "screen_size"
      [] k = "language" -> "language"
      [] k = "device" -> "model"
      [] k = "user_agent" -> "user_agent"

\* the documented neutral constant of a comparator, in hundredths
NeutralHundredths(k) ==
    CASE k = "timezone" -> 50
      [] k = "screen" -> 30
      [] k = "language" -> 40
      [] k = "device" -> 40
      [] k = "user_agent" -> 30

\* the last matcher call scored one candidate and kept its breakdown
ScoredOne ==
    /\ lastMatch.called
    /\ Len(lastMatch.candidates) = 1
    /\ lastMatch.result.session_id # NoneId

\* C21: each comparator returns exactly its neutral constant (timezone 0.5,
\* screen 0.3, language 0.4, device model 0.4, user-agent 0.3) when its
\* attribute is absent, null or empty on the candidate side or on the query
\* side, candidate rows stored with a NULL attribute included.
C21_MissingAttributeIsNeutral ==
    ScoredOne =>
        \A k \in ScoreKeys :
            (\/ Falsy(lastMatch.candidates[1][AttributeOf(k)])
             \/ Falsy(lastMatch.fingerprint[AttributeOf(k)]))
            => lastMatch.result.details.component_scores[k] = (SCALE * NeutralHundredths(k)) \div 100

\* a candidate row stored with NULL language and model was scored against a
\* query that has both: language and device model scored 0.0, not 0.4
C21_NullRowScoredZero ==
    /\ ScoredOne
    /\ lastMatch.candidates[1].language = NoneVal
    /\ lastMatch.candidates[1].model = NoneVal
    /\ lastMatch.fingerprint.language = "ru_RU"
    /\ lastMatch.result.details.component_scores["language"] = 0
    /\ lastMatch.result.details.component_scores["device"] = 0

(***************************************************************************)
(* Properties of a cycle on a history with unusable records (specification *)
(* SpecAdapt)                                                              *)
(***************************************************************************)
\* a stored match-detail record the cycle cannot use: not valid JSON, valid
\* JSON that is not an object, or component scores that are not numbers
Unusable(t) == t # SqlNull /\ (~IsJsonText(t) \/ RaisesUncaught(t))

\* the records of the SELECT that remain when the unusable ones are skipped
UsableResults(rows) == {id \in QualifyingResults(rows) : ~Unusable(rows[id].match_details)}

\* the weights a cycle leaves when it computes its update from the given records
WeightsFrom(rows, used, w, roundUp) ==
    ApplyPerformance(w, roundUp, ProposedKeys(rows, used), AvgPerformance(rows, used),
                     RatSumOver(AvgPerformance(rows, used), ScoreKeys)).weights

\* C22: an unusable match-detail record is skipped individually.  A cycle
\* whose SELECT returns at least ten rows leaves the weights computed from
\* the records that remain when the unusable ones are skipped: they still
\* contribute and the cycle completes its update; one bad record never
\* aborts the cycle.
C22_UnusableRecordSkipped ==
    (lastCycle.called /\ Cardinality(QualifyingResults(store)) >= MIN_SAMPLES) =>
        lastCycle.after = WeightsFrom(store, UsableResults(store), lastCycle.before,
                                      lastCycle.roundUp)

\* a cycle gave up on a history that holds ten usable records with
\* confidence above 0.7 next to an unusable one
C22_CycleAbortedByOneRecord ==
    /\ lastCycle.called
    /\ lastCycle.outcome = "aborted"
    /\ lastCycle.after = lastCycle.before
    /\ Cardinality(UsableResults(store)) = MIN_SAMPLES
    /\ Cardinality(QualifyingResults(store)) = MIN_SAMPLES + 1

(***************************************************************************)
(* Properties of the decision threshold (specification SpecThreshold)      *)
(***************************************************************************)
\* seconds since local midnight at the last threshold call
ThresholdTimeOfDay == lastThreshold.current_time % (24 * HOUR)

\* the quality adjustment, in hundredths: -5 above 0.8, +10 below 0.4
QualityAdjustment(app_fingerprint) ==
    IF assess_fingerprint_quality(app_fingerprint) > 80 THEN 0 - 5
    ELSE IF assess_fingerprint_quality(app_fingerprint) < 40 THEN 10
    ELSE 0

\* C23: _get_dynamic_threshold returns clamp(0.70 + h + q, 0.50, 0.90) with
\* h = +0.05 when the local time of the query is within business hours
\* 09:00-21:00 and -0.05 at any other time, and q = -0.05 for quality above
\* 0.8, +0.10 for quality below 0.4 and 0 otherwise; the result is always
\* within [0.50, 0.90].
C23_ThresholdByBusinessHours ==
    lastThreshold.called =>
        /\ lastThreshold.result =
              Max(50, Min(90, 70
                              + (IF 9 * HOUR <= ThresholdTimeOfDay /\ ThresholdTimeOfDay <= 21 * HOUR
                                 THEN 5 ELSE 0 - 5)
                              + QualityAdjustment(lastThreshold.app_fingerprint)))
        /\ lastThreshold.result >= 50
        /\ lastThreshold.result <= 90

\* a complete fingerprint queried at 21:30 local time got the business-hours
\* threshold 0.70, not the off-hours threshold 0.60
C23_TightenedAfterNine ==
    /\ lastThreshold.called
    /\ ThresholdTimeOfDay = 21 * HOUR + HOUR \div 2
    /\ lastThreshold.app_fingerprint = normalize_fingerprint(MoscowProfile)
    /\ lastThreshold.result = 70

(***************************************************************************)
(* Properties of the temporal multiplier (specification SpecTemporal)      *)
(***************************************************************************)
\* the multiplier, in tenths, that belongs to delta elapsed seconds
MultiplierFor(delta) ==
    IF delta < 10 THEN 2
    ELSE IF delta < 30 THEN 6
    ELSE IF delta <= 600 THEN 10
    ELSE IF delta <= 3600 THEN 9
    ELSE IF delta <= 14400 THEN 7
    ELSE IF delta <= 86400 THEN 4
    ELSE 1

\* C24: for a candidate with a parseable creation time and elapsed seconds
\* D at query time, _validate_temporal_patterns returns 0.2 if D < 10, 0.6
\* if 10 <= D < 30, 1.0 if 30 <= D <= 600, 0.9 if 600 < D <= 3600, 0.7 if
\* 3600 < D <= 14400, 0.4 if 14400 < D <= 86400 and 0.1 if D > 86400; for a
\* candidate without a creation time it returns 0.8.
C24_MultiplierByElapsedTime ==
    ScoredOne =>
        lastMatch.result.details.temporal_score =
            IF lastMatch.candidates[1].created_at = NoTime THEN 8
            ELSE MultiplierFor(now - lastMatch.candidates[1].created_at)

\* a candidate queried ten minutes after its creation got the multiplier
\* 0.7 of the band from one to four hours
C24_TenMinutesScoredAsHours ==
    /\ ScoredOne
    /\ lastMatch.candidates[1].created_at = now - 600
    /\ lastMatch.result.details.temporal_score = 7

(***************************************************************************)
(* Properties of shutdown (specification SpecShutdown)                     *)
(***************************************************************************)
\* C25: on shutdown both background cycles are cancelled and awaited and
\* shutdown_tasks terminates with both stopped; a cancellation takes effect
\* only at a cycle's sleep point, never in the middle of a cleanup delete
\* or an adaptation update; an exception raised inside an iteration does
\* not end the cycle.
C25_CyclesStopOnlyAtSleepOnShutdown ==
    /\ \A p \in Procs : (lifespan[p] = "await_cleanup") ~> (lifespan[p] = "stopped")
    /\ [](\A p \in Procs : lifespan[p] = "stopped" =>
              \A n \in TaskNames : tasks[p][n].at = "cancelled")
    /\ [][\A p \in Procs, n \in TaskNames :
             (tasks[p][n].at # "cancelled" /\ tasks'[p][n].at = "cancelled")
             => (tasks[p][n].at = "asleep" /\ pc[p] = "idle" /\ store' = store /\ weights' = weights)]_vars
    /\ [](\A p \in Procs, n \in TaskNames :
              tasks[p][n].at \in {"none", "asleep", "iterating"}
              \/ (tasks[p][n].at = "cancelled" /\ lifespan[p] \notin {"not_started", "serving"}))

\* a process stopped with both tasks cancelled after its cleanup iteration
\* had deleted the expired row and its optimisation iteration had updated
\* the weights
C25_StoppedAfterWork ==
    \E p \in Procs :
        /\ lifespan[p] = "stopped"
        /\ \A n \in TaskNames : tasks[p][n].at = "cancelled"
        /\ Cardinality(DOMAIN store) = MIN_SAMPLES + 1
        /\ weights[p] # DefaultWeights

(***************************************************************************)
(* Properties of the value a cycle returns (specification SpecAdapt)       *)
(***************************************************************************)
\* C26: the vector optimize_algorithm_weights returns equals the weight
\* vector the matcher holds after the call, both when the cycle updates the
\* weights and when it leaves them unchanged.
C26_ReturnedWeightsAreHeld ==
    lastCycle.called =>
        /\ lastCycle.returned = lastCycle.after
        /\ lastCycle.after = weights[lastCycle.proc]

\* a cycle updated the weights and returned a vector that sums to more than
\* 1, while the matcher holds the normalised vector
C26_ReturnedBeforeNormalisation ==
    /\ lastCycle.called
    /\ lastCycle.outcome = "updated"
    /\ WeightSum(lastCycle.returned) > lastCycle.returned.den
    /\ SumsToOne(lastCycle.after)
    /\ lastCycle.returned # lastCycle.after


(***************************************************************************)
(* Properties of the resolved write (specification Spec)                   *)
(***************************************************************************)
\* C27: no candidate is transitioned to resolved at a time past its expiry:
\* when the clock of the process agrees with the clock of the store, a step
\* of mark_session_resolved that turns is_resolved of a row from false to
\* true is taken no later than the expires_at of that row.
C27_NoResolvedWriteAfterExpiry ==
    [][\A p \in Procs :
          (tzOffset = 0 /\ MarkStep(p)) =>
              \A id \in DOMAIN store :
                  (id \in DOMAIN store' /\ ~store[id].is_resolved /\ store'[id].is_resolved)
                      => now <= store[id].expires_at]_vars

\* with both clocks in agreement a row that find_matching_session loaded
\* before its expires_at carries a resolved_at later than its expires_at
C27_ResolvedAfterExpiry ==
    /\ tzOffset = 0
    /\ \E id \in DOMAIN store :
          /\ store[id].is_resolved
          /\ store[id].resolved_at > store[id].expires_at
          /\ lastFind.returned = id
          /\ lastFind.loadedAt < store[id].expires_at


(***************************************************************************)
(* Properties of one event loop (specification SpecLoop)                   *)
(***************************************************************************)
\* C28: within one server process nothing runs between the candidate read
\* and the resolved write of a /resolve request: while the request is
\* between its two calls the rows it read are still as it read them, the
\* candidate it selected is stored and unresolved and the weights are those
\* it scored with; every resolved write changes one row that was unresolved,
\* and no two requests succeed on the same candidate.
C28_ReadAndWriteNotInterleaved ==
    /\ \A p \in Procs :
          pc[p] = "found" =>
              /\ lastFind.proc = p
              /\ lastFind.returned = matching_session[p].session_id
              /\ \A i \in DOMAIN lastFind.candidates :
                    /\ lastFind.candidates[i].session_id \in DOMAIN store
                    /\ store[lastFind.candidates[i].session_id] = lastFind.candidates[i]
              /\ matching_session[p].session_id \in DOMAIN store
              /\ ~store[matching_session[p].session_id].is_resolved
              /\ matching_session[p].match_details.weights_used = weights[p]
    /\ \A r \in responses :
          r.matched => /\ r.mark.existed
                       /\ ~r.mark.was_resolved
                       /\ r.mark.rows_affected = 1
    /\ \A r1, r2 \in responses :
          (r1.matched /\ r2.matched /\ r1.session_id = r2.session_id) => r1 = r2

\* the loop has served two /resolve requests one after the other: the first
\* resolved a candidate, the second found none, and a cleanup cycle ran
\* after them
C28_TwoRequestsServedInTurn ==
    /\ \A p \in Procs : pc[p] = "idle"
    /\ \E r1, r2 \in responses :
          /\ r1.proc = LoopProc /\ r2.proc = LoopProc
          /\ r1.matched /\ ~r2.matched
          /\ r1.session_id \notin DOMAIN store
    /\ stats[LoopProc].total_requests = 2


(***************************************************************************)
(* Properties of old candidates (specification SpecTemporal)               *)
(***************************************************************************)
\* C29: a candidate created more than 4 hours (14400 s) before the query
\* gets a temporal multiplier of at most 0.4 and is not declared a match.
C29_OlderThanFourHoursNeverMatched ==
    (/\ ScoredOne
     /\ lastMatch.candidates[1].created_at # NoTime
     /\ now - lastMatch.candidates[1].created_at > 14400)
        => /\ lastMatch.result.details.temporal_score <= 4
           /\ ~lastMatch.result.is_match

\* a candidate created 5 hours and 10 minutes before the query, within its
\* lifetime of 48 hours, was declared a match with the multiplier 1.0
C29_FiveHoursOldMatched ==
    /\ ScoredOne
    /\ lastMatch.candidates[1].created_at = now - 18600
    /\ lastMatch.candidates[1].expires_at > lastMatch.current_time
    /\ lastMatch.result.details.temporal_score = 10
    /\ lastMatch.result.is_match
    /\ lastMatch.result.session_id = lastMatch.candidates[1].session_id


(***************************************************************************)
(* Properties of the time base (specification Spec)                        *)
(***************************************************************************)
\* C30: creation, expiry and query times are compared in one time base,
\* whatever the UTC offset of the server: a find_matching_session call loads
\* exactly the unresolved rows whose TTL has not run out since their
\* creation, and the temporal multiplier of the candidate it returns is the
\* one of the real time elapsed since the creation of that candidate.
C30_OneTimeBase ==
    [][\A p \in Procs :
          FindStep(p) =>
              /\ {lastFind'.candidates[i].session_id : i \in DOMAIN lastFind'.candidates}
                    = {id \in DOMAIN store : /\ ~store[id].is_resolved
                                             /\ now < ExpiryTime(store[id])}
              /\ lastFind'.returned # NoneId =>
                    matching_session'[p].match_details.temporal_score
                        = MultiplierFor(now - matching_session'[p].created_at)]_vars

\* a find_matching_session call left out of its pool an unresolved row that
\* was created before the call and whose TTL had not run out
C30_LiveCandidateNotEligible ==
    /\ lastFind.proc \in Procs
    /\ \E id \in DOMAIN store :
          /\ ~store[id].is_resolved
          /\ store[id].created_at < lastFind.loadedAt
          /\ lastFind.loadedAt < ExpiryTime(store[id])
          /\ \A i \in DOMAIN lastFind.candidates : lastFind.candidates[i].session_id # id

=============================================================================
